---- MODULE Spec2Model ----
(***************************************************************************)
(* A model of the interactive multi-agent debate runner                    *)
(* (MAD-main/src/runners/interactive_debate.py) and of the provider        *)
(* wrappers it calls (MAD-main/src/debate/models.py).                      *)
(*                                                                         *)
(* Text is a sequence of atoms (TLA+ strings).  An atom stands for one     *)
(* character or for one unbroken piece of literal text; " " and "\n" are   *)
(* the whitespace atoms, and the JSON punctuation atoms are "[", "]", "{", *)
(* "}", ",", ":" and the double quote.  The empty text is <<>>.  The      *)
(* length of a text and the character limits of the code (3000, 4000)     *)
(* count atoms.                                                            *)
(***************************************************************************)
EXTENDS Integers, Sequences, FiniteSets, TLC

VARIABLES
    pc,               \* position of run_interactive_debate
    cfg,              \* the models config as loaded: pairing entry and environment
    topic,            \* argument topic
    max_agents,       \* argument max_agents
    num_rounds,       \* argument num_rounds
    agent_models,     \* the pool of model handles built at lines 361-369
    viewpoints,       \* result of generate_viewpoints
    agent_briefs,     \* briefs appended at line 411
    agents,           \* agent records appended at lines 427-437
    conversation_log, \* the transcript
    idx,              \* loop index of the agent-building loop (enumerate from 1)
    r,                \* round counter of the debate loop
    turn,             \* position inside the inner "for agent in agents" loop
    judge_summary,    \* text returned by the judge call
    final_report,     \* text of the final report
    result,           \* the returned DebateResult, or NoResult
    error,            \* exception that left run_interactive_debate, or "none"
    calls,            \* history: every model.invoke issued, in order
    files,            \* history: every file written, in order
    fn                \* call record of a function exercised on its own

vars == <<pc, cfg, topic, max_agents, num_rounds, agent_models, viewpoints,
          agent_briefs, agents, conversation_log, idx, r, turn, judge_summary,
          final_report, result, error, calls, files, fn>>

runVars == <<pc, cfg, topic, max_agents, num_rounds, agent_models, viewpoints,
             agent_briefs, agents, conversation_log, idx, r, turn, judge_summary,
             final_report, result, error, calls, files>>

----------------------------------------------------------------------------
(* Bounds of the model. *)

MaxAgents == 3      \* max_agents ranges over 2..MaxAgents
MaxRounds == 2      \* num_rounds ranges over 0..MaxRounds
MaxTurns == 6       \* a run has at most MaxTurns turns: num_rounds * max_agents
MaxItems == 3       \* longest viewpoint list a model response holds
MaxClock == 1       \* seconds of wall-clock time that pass while two runs execute

----------------------------------------------------------------------------
(* Text helpers (Python str operations on sequences of atoms). *)

WS == {" ", "\n"}
Quote == "\""

Min(a, b) == IF a <= b THEN a ELSE b
Max(a, b) == IF a >= b THEN a ELSE b

RECURSIVE LStrip(_)
LStrip(s) == IF s # <<>> /\ Head(s) \in WS THEN LStrip(Tail(s)) ELSE s

RECURSIVE RStrip(_)
RStrip(s) == IF s # <<>> /\ s[Len(s)] \in WS THEN RStrip(SubSeq(s, 1, Len(s) - 1)) ELSE s

\* str.strip()
Strip(s) == RStrip(LStrip(s))

\* "sub in s"
Contains(s, sub) == \E i \in 0..(Len(s) - Len(sub)) : SubSeq(s, i + 1, i + Len(sub)) = sub

\* s[:n] of a Python sequence
SliceTo(s, n) == IF n >= 0 THEN SubSeq(s, 1, Min(n, Len(s)))
                 ELSE SubSeq(s, 1, Max(0, Len(s) + n))

\* s[-n:] for n > 0
SliceLast(s, n) == IF Len(s) <= n THEN s ELSE SubSeq(s, Len(s) - n + 1, Len(s))

RECURSIVE Concat(_)
Concat(ss) == IF ss = <<>> THEN <<>> ELSE Head(ss) \o Concat(Tail(ss))

\* "\n".join(lines)
RECURSIVE JoinLines(_)
JoinLines(ls) == IF ls = <<>> THEN <<>>
                 ELSE IF Len(ls) = 1 THEN ls[1]
                 ELSE ls[1] \o <<"\n">> \o JoinLines(Tail(ls))

----------------------------------------------------------------------------
(* JSON values and json.loads.  Every value is a record [t, s, kids]:      *)
(* t the kind, s the atoms of a string, number or key, kids the elements   *)
(* of a list or the pairs of an object.                                    *)

JNull == [t |-> "null", s |-> <<>>, kids |-> <<>>]
JStr(s) == [t |-> "str", s |-> s, kids |-> <<>>]
JNum(a) == [t |-> "num", s |-> <<a>>, kids |-> <<>>]
JList(vs) == [t |-> "list", s |-> <<>>, kids |-> vs]
JPair(k, v) == [t |-> "pair", s |-> k, kids |-> <<v>>]
JObj(ps) == [t |-> "obj", s |-> <<>>, kids |-> ps]

NumAtoms == {"0", "1", "2", "3", "0.25"}

ParseFail == [ok |-> FALSE, val |-> JNull, next |-> 0]
ParseOk(v, n) == [ok |-> TRUE, val |-> v, next |-> n]

RECURSIVE SkipWs(_, _)
SkipWs(x, i) == IF i <= Len(x) /\ x[i] \in WS THEN SkipWs(x, i + 1) ELSE i

RECURSIVE FindAtom(_, _, _)
\* index of the first a at or after i, 0 when there is none (str.find)
FindAtom(x, a, i) == IF i > Len(x) THEN 0
                     ELSE IF x[i] = a THEN i ELSE FindAtom(x, a, i + 1)

RECURSIVE RFindAtom(_, _, _)
\* index of the last a at or before i, 0 when there is none (str.rfind)
RFindAtom(x, a, i) == IF i < 1 THEN 0
                      ELSE IF x[i] = a THEN i ELSE RFindAtom(x, a, i - 1)

\* a string literal whose opening quote is x[i]
ParseString(x, i) ==
    LET j == FindAtom(x, Quote, i + 1) IN
    IF j = 0 THEN ParseFail ELSE ParseOk(JStr(SubSeq(x, i + 1, j - 1)), j + 1)

RECURSIVE ParseValue(_, _)
RECURSIVE ParseElems(_, _, _)
RECURSIVE ParseMembers(_, _, _)

ParseValue(x, i0) ==
    LET i == SkipWs(x, i0) IN
    IF i > Len(x) THEN ParseFail
    ELSE IF x[i] = Quote THEN ParseString(x, i)
    ELSE IF x[i] = "[" THEN
        LET j == SkipWs(x, i + 1) IN
        IF j <= Len(x) /\ x[j] = "]" THEN ParseOk(JList(<<>>), j + 1)
        ELSE ParseElems(x, i + 1, <<>>)
    ELSE IF x[i] = "{" THEN
        LET j == SkipWs(x, i + 1) IN
        IF j <= Len(x) /\ x[j] = "}" THEN ParseOk(JObj(<<>>), j + 1)
        ELSE ParseMembers(x, i + 1, <<>>)
    ELSE IF x[i] \in NumAtoms THEN ParseOk(JNum(x[i]), i + 1)
    ELSE IF x[i] = "null" THEN ParseOk(JNull, i + 1)
    ELSE ParseFail

\* the elements of a list from position i on, acc the elements read so far
ParseElems(x, i, acc) ==
    LET v == ParseValue(x, i) IN
    IF ~v.ok THEN ParseFail
    ELSE LET j == SkipWs(x, v.next) IN
         IF j > Len(x) THEN ParseFail
         ELSE IF x[j] = "," THEN ParseElems(x, j + 1, Append(acc, v.val))
         ELSE IF x[j] = "]" THEN ParseOk(JList(Append(acc, v.val)), j + 1)
         ELSE ParseFail

\* the members of an object from position i on, acc the pairs read so far
ParseMembers(x, i, acc) ==
    LET k0 == SkipWs(x, i) IN
    IF k0 > Len(x) \/ x[k0] # Quote THEN ParseFail
    ELSE LET k == ParseString(x, k0) IN
         IF ~k.ok THEN ParseFail
         ELSE LET c == SkipWs(x, k.next) IN
              IF c > Len(x) \/ x[c] # ":" THEN ParseFail
              ELSE LET v == ParseValue(x, c + 1) IN
                   IF ~v.ok THEN ParseFail
                   ELSE LET j == SkipWs(x, v.next) IN
                        IF j > Len(x) THEN ParseFail
                        ELSE IF x[j] = "," THEN
                            ParseMembers(x, j + 1, Append(acc, JPair(k.val.s, v.val)))
                        ELSE IF x[j] = "}" THEN
                            ParseOk(JObj(Append(acc, JPair(k.val.s, v.val))), j + 1)
                        ELSE ParseFail

\* json.loads(x): ok = FALSE stands for the JSONDecodeError it raises
json_loads(x) ==
    LET v == ParseValue(x, 1) IN
    IF v.ok /\ SkipWs(x, v.next) > Len(x) THEN v ELSE ParseFail

\* "key in d" and d.get(key, default) of a parsed object (the last duplicate wins)
HasKey(o, k) == \E i \in 1..Len(o.kids) : o.kids[i].s = k
DictGet(o, k, d) ==
    IF HasKey(o, k)
    THEN LET i == CHOOSE n \in 1..Len(o.kids) :
                     /\ o.kids[n].s = k
                     /\ \A m \in (n + 1)..Len(o.kids) : o.kids[m].s # k
         IN o.kids[i].kids[1]
    ELSE d

\* json.dumps of a value, used to write the model responses the checks draw from
RECURSIVE Dumps(_)
RECURSIVE DumpsSeq(_)
Dumps(v) ==
    IF v.t = "str" THEN <<Quote>> \o v.s \o <<Quote>>
    ELSE IF v.t = "num" THEN v.s
    ELSE IF v.t = "null" THEN <<"null">>
    ELSE IF v.t = "pair" THEN <<Quote>> \o v.s \o <<Quote, ":", " ">> \o Dumps(v.kids[1])
    ELSE IF v.t = "list" THEN <<"[">> \o DumpsSeq(v.kids) \o <<"]">>
    ELSE <<"{">> \o DumpsSeq(v.kids) \o <<"}">>
DumpsSeq(vs) ==
    IF vs = <<>> THEN <<>>
    ELSE IF Len(vs) = 1 THEN Dumps(vs[1])
    ELSE Dumps(vs[1]) \o <<",", " ">> \o DumpsSeq(Tail(vs))

\* str(v) of a parsed value
PyStr(v) ==
    IF v.t = "str" THEN v.s
    ELSE IF v.t = "num" THEN v.s
    ELSE IF v.t = "null" THEN <<"None">>
    ELSE Dumps(v)

----------------------------------------------------------------------------
(* invoke_raw: the outcome of model.invoke is an exception, a response     *)
(* with a content attribute (a text, or None), or an object without one.   *)

Raises == [k |-> "raise", text |-> <<>>]
Content(t) == [k |-> "content", text |-> t]
ContentNone == [k |-> "none", text |-> <<>>]
NoContentAttr(t) == [k |-> "noattr", text |-> t]    \* t is str(resp)

\* mutant: the text is returned without .strip()
invoke_raw_noStrip(o) ==
    IF o.k = "raise" THEN <<>>
    ELSE IF o.k = "none" THEN <<>>
    ELSE o.text

\* lines 74-87: content is resp.content, or str(resp) without the attribute
invoke_raw(o) ==
    IF o.k = "raise" THEN <<>>
    ELSE IF o.k = "none" THEN <<>>
    ELSE Strip(o.text)

\* the fixed failure payload every provider wrapper returns on an error
Sentinel ==
    LET Q(a) == <<Quote, a, Quote>>
        Four(v) == <<"{">> \o Q("A") \o <<":", " ">> \o v \o <<",", " ">>
                         \o Q("B") \o <<":", " ">> \o v \o <<",", " ">>
                         \o Q("C") \o <<":", " ">> \o v \o <<",", " ">>
                         \o Q("D") \o <<":", " ">> \o v \o <<"}">>
    IN <<"{">> \o Q("output") \o <<":", " ">> \o Four(<<"0.25">>) \o <<",", " ">>
             \o Q("reason") \o <<":", " ">> \o Four(Q("Error")) \o <<"}">>

----------------------------------------------------------------------------
(* generate_viewpoints *)

Viewpoint(n, p, s) == [name |-> n, position |-> p, summary |-> s]

\* the loop of lines 150-158 over the parsed list
RECURSIVE ValidViewpoints(_)
ValidViewpoints(items) ==
    IF items = <<>> THEN <<>>
    ELSE LET item == Head(items)
             name == Strip(PyStr(DictGet(item, <<"name">>, JStr(<<>>))))
             pos == Strip(PyStr(DictGet(item, <<"position">>, JStr(<<>>))))
             summ == Strip(PyStr(DictGet(item, <<"summary">>, JStr(<<>>))))
         IN IF item.t # "obj" THEN ValidViewpoints(Tail(items))
            ELSE IF name # <<>> /\ pos # <<>>
                 THEN <<Viewpoint(name, pos, summ)>> \o ValidViewpoints(Tail(items))
                 ELSE ValidViewpoints(Tail(items))

\* mutant: the canned viewpoints without the topic, opposing one first
FallbackViewpoints_noTopic(t) ==
    << Viewpoint(<<"Con", " ", "Position">>, <<"Strongly opposes the statement: ">>,
                 <<"Argues against, emphasizing risks and drawbacks.">>),
       Viewpoint(<<"Pro", " ", "Position">>, <<"Strongly supports the statement: ">>,
                 <<"Argues in favor, emphasizing benefits and positive outcomes.">>) >>

FallbackViewpoints(t) ==
    << Viewpoint(<<"Pro", " ", "Position">>, <<"Strongly supports the statement: ">> \o t,
                 <<"Argues in favor, emphasizing benefits and positive outcomes.">>),
       Viewpoint(<<"Con", " ", "Position">>, <<"Strongly opposes the statement: ">> \o t,
                 <<"Argues against, emphasizing risks and drawbacks.">>) >>

\* mutant: the parsed list is returned without the cut to max_agents
generate_viewpoints_noCut(raw, t, m) ==
    LET data == json_loads(raw) IN
    IF data.ok /\ data.val.t = "list" /\ Len(ValidViewpoints(data.val.kids)) >= 2
    THEN ValidViewpoints(data.val.kids)
    ELSE FallbackViewpoints(t)

\* mutant: a list with a single valid viewpoint is accepted
generate_viewpoints_acceptOne(raw, t, m) ==
    LET data == json_loads(raw) IN
    IF data.ok /\ data.val.t = "list" /\ Len(ValidViewpoints(data.val.kids)) >= 1
    THEN SliceTo(ValidViewpoints(data.val.kids), m)
    ELSE FallbackViewpoints(t)

\* mutant: a viewpoint without a summary is dropped as well
generate_viewpoints_requireSummary(raw, t, m) ==
    LET data == json_loads(raw)
        full(vs) == SelectSeq(vs, LAMBDA v : v.summary # <<>>)
    IN
    IF data.ok /\ data.val.t = "list" /\ Len(full(ValidViewpoints(data.val.kids))) >= 2
    THEN SliceTo(full(ValidViewpoints(data.val.kids)), m)
    ELSE FallbackViewpoints(t)

\* raw is the text invoke_raw returned for the viewpoint request
generate_viewpoints(raw, t, m) ==
    LET data == json_loads(raw) IN
    IF data.ok /\ data.val.t = "list" /\ Len(ValidViewpoints(data.val.kids)) >= 2
    THEN SliceTo(ValidViewpoints(data.val.kids), m)
    ELSE FallbackViewpoints(t)

----------------------------------------------------------------------------
(* _extract_json_object and generate_agent_brief *)

\* the Markdown code fence (three backquotes) is the atom Fence
Fence == "<fence>"

RECURSIVE LStripFence(_)
\* s.lstrip("`")
LStripFence(s) == IF s # <<>> /\ Head(s) = Fence THEN LStripFence(Tail(s)) ELSE s

\* lines 108-112: the slice from the first "{" to the last "}"
slice_braces(s) ==
    IF FindAtom(s, "{", 1) # 0 /\ RFindAtom(s, "}", Len(s)) > FindAtom(s, "{", 1)
    THEN SubSeq(s, FindAtom(s, "{", 1), RFindAtom(s, "}", Len(s)))
    ELSE s

\* lines 105-106: the text before the first remaining fence
cut_at_fence(s) == IF FindAtom(s, Fence, 1) # 0 THEN SubSeq(s, 1, FindAtom(s, Fence, 1) - 1) ELSE s

\* lines 102-103: a leading language tag is dropped
drop_json_tag(s) == IF s # <<>> /\ Head(s) \in {"json", "JSON", "Json"} THEN Tail(s) ELSE s

\* lines 99-106
strip_fences(s) ==
    IF s # <<>> /\ Head(s) = Fence THEN cut_at_fence(drop_json_tag(LStripFence(s))) ELSE s

_extract_json_object(text) ==
    IF text = <<>> THEN <<>> ELSE slice_braces(strip_fences(Strip(text)))

IntAtom(i) == <<"0", "1", "2", "3", "4", "5", "6", "7", "8", "9">>[i + 1]

\* keys of the brief that a parsed response may overwrite (every key but raw_json_response)
BriefMergeKeys ==
    {"agent_id", "name", "topic", "position", "role_summary", "supporting_arguments",
     "anticipated_opponent_arguments", "self_weaknesses", "questions_to_ask",
     "debate_strategy", "summary_for_prompt", "raw_brief"}

\* characters kept in the file name of a brief: alphanumerics, " ", "_" and "-"
NotAlnum == {"?", "!", ":", ",", ".", "'", Quote, "{", "}", "[", "]", "\n", "/", Fence}
RECURSIVE KeepSafe(_)
KeepSafe(n) == IF n = <<>> THEN <<>>
               ELSE IF Head(n) \in NotAlnum THEN KeepSafe(Tail(n))
               ELSE <<Head(n)>> \o KeepSafe(Tail(n))
safe_name(n) == LET kept == Strip(KeepSafe(n))
                IN [i \in 1..Len(kept) |-> IF kept[i] = " " THEN "_" ELSE kept[i]]

brief_path(i, n) == <<"briefs/", "brief_agent", IntAtom(i), "_">> \o safe_name(n) \o <<".json">>

\* line 263: the fallback summary_for_prompt
summary_fallback(vp) == JStr(vp.position \o <<"\n", "\n">> \o vp.summary)

\* lines 252-265: the brief before the response is merged into it
initial_brief(raw, t, vp, i) ==
    [agent_id |-> JNum(IntAtom(i)),
     name |-> JStr(vp.name),
     topic |-> JStr(t),
     position |-> JStr(vp.position),
     role_summary |-> JStr(IF vp.summary # <<>> THEN vp.summary ELSE vp.position),
     supporting_arguments |-> JList(<<>>),
     anticipated_opponent_arguments |-> JList(<<>>),
     self_weaknesses |-> JList(<<>>),
     questions_to_ask |-> JList(<<>>),
     debate_strategy |-> JObj(<<>>),
     summary_for_prompt |-> summary_fallback(vp),
     raw_json_response |-> JStr(raw),
     raw_brief |-> JNull,
     extra |-> JObj(<<>>)]

\* the pairs of a parsed object whose keys the brief does not have yet
other_pairs(o) ==
    SelectSeq(o.kids, LAMBDA kv : /\ Len(kv.s) # 1 \/ kv.s[1] \notin BriefMergeKeys
                                  /\ kv.s # <<"raw_json_response">>)

\* mutant: the parsed response is not merged into the brief
merge_brief_ignoreParsed(brief, parsed) == brief

\* mutant: the keys that name the agent are not taken from the parsed response
merge_brief_keepIdentity(brief, parsed) ==
    IF parsed.ok /\ parsed.val.t = "obj"
    THEN [k \in DOMAIN brief |->
            IF k = "extra" THEN JObj(other_pairs(parsed.val))
            ELSE IF k \in BriefMergeKeys \ {"agent_id", "name", "topic", "position"}
                    /\ HasKey(parsed.val, <<k>>)
                 THEN DictGet(parsed.val, <<k>>, JNull)
                 ELSE brief[k]]
    ELSE brief

\* lines 268-279: parsed is json.loads of the extracted text
merge_brief(brief, parsed) ==
    IF parsed.ok /\ parsed.val.t = "obj"
    THEN [k \in DOMAIN brief |->
            IF k = "extra" THEN JObj(other_pairs(parsed.val))
            ELSE IF k \in BriefMergeKeys /\ HasKey(parsed.val, <<k>>)
                 THEN DictGet(parsed.val, <<k>>, JNull)
                 ELSE brief[k]]
    ELSE brief

\* mutant: the parsed summary_for_prompt is kept whatever it is
ensure_summary_noCheck(brief, vp) == brief

\* lines 294-295
ensure_summary(brief, vp) ==
    IF brief.summary_for_prompt.t # "str" \/ Strip(brief.summary_for_prompt.s) = <<>>
    THEN [brief EXCEPT !.summary_for_prompt = summary_fallback(vp)]
    ELSE brief

\* mutant: a raw_brief the answer supplied is kept
set_raw_brief_keepParsed(brief, raw_brief) ==
    [brief EXCEPT !.raw_brief = IF brief.raw_brief # JNull THEN brief.raw_brief
                                ELSE IF raw_brief # <<>> THEN JStr(raw_brief)
                                ELSE brief.summary_for_prompt]

\* line 319
set_raw_brief(brief, raw_brief) ==
    [brief EXCEPT !.raw_brief = IF raw_brief # <<>> THEN JStr(raw_brief)
                                ELSE brief.summary_for_prompt]

\* the brief record of lines 252-319; raw and raw_brief are the texts invoke_raw
\* returned for the structured request and for the dossier request
generate_agent_brief(raw, raw_brief, t, vp, i) ==
    set_raw_brief(
        ensure_summary(
            IF raw # <<>>
            THEN merge_brief(initial_brief(raw, t, vp, i), json_loads(_extract_json_object(raw)))
            ELSE initial_brief(raw, t, vp, i),
            vp),
        raw_brief)

\* the persona text of lines 413-426
system_prompt(vp, brief) ==
    <<"You are an agent named '">> \o vp.name \o <<"'.", "\n">>
    \o <<"Your core position on the topic is: ">> \o vp.position \o <<".", "\n">>
    \o <<"In the debate, you MUST consistently argue from this perspective. ...", "\n">>
    \o <<"You also have the following preparation notes ...:", "\n">>
    \o PyStr(brief.summary_for_prompt) \o <<"\n">>

----------------------------------------------------------------------------
(* The deterministic template report of lines 606-654. *)

RECURSIVE TemplateViewpointLines(_, _)
TemplateViewpointLines(vps, i) ==
    IF i > Len(vps) THEN <<>>
    ELSE << <<"   - Agent ", IntAtom(i), " (">> \o vps[i].name \o <<"): ">> \o vps[i].position >>
         \o (IF vps[i].summary # <<>>
             THEN << <<"       - Rationale: ">> \o vps[i].summary >> ELSE <<>>)
         \o TemplateViewpointLines(vps, i + 1)

\* mutant: the template without its topic line
template_report_noTopic(t, vps) ==
    JoinLines(<< <<"1. Research Question & Context">> >>
              \o TemplateViewpointLines(vps, 1))

template_report(t, vps) ==
    JoinLines(<< <<"1. Research Question & Context">>,
                 <<"   - Topic: ">> \o t,
                 <<"   - This report summarizes a multi-agent debate ...">>,
                 <<>>,
                 <<"2. Summary of Viewpoints">> >>
              \o TemplateViewpointLines(vps, 1)
              \o << <<>>,
                    <<"3. Comparative Analysis & Key Conflicts">>,
                    <<"   - Agents disagree on both the desirability and the acceptable risk level ...">>,
                    <<"   - Pro-style agents emphasize potential benefits and opportunities, ...">>,
                    <<"   - Conditional or moderate agents typically argue for tightly scoped pilots ...">>,
                    <<>>,
                    <<"4. Tentative Conclusion & Recommendation">>,
                    <<"   - Given the diversity of arguments, ...">>,
                    <<>>,
                    <<"5. Limitations & Suggestions for Further Investigation">>,
                    <<"   - This report is based solely on LLM-generated arguments ...">>,
                    <<"   - Future work should incorporate real data, ...">> >>)

----------------------------------------------------------------------------
(* Inputs the checks draw from. *)

Topics == { <<"Should", " ", "banks", " ", "issue", " ", "CBDCs", "?">>, <<"x">> }

ItemObj(n, p, s) == JObj(<<JPair(<<"name">>, n), JPair(<<"position">>, p), JPair(<<"summary">>, s)>>)

\* the items a model may put in its viewpoint list
VPItems ==
    { ItemObj(JStr(<<"Optimist">>), JStr(<<"is", " ", "good">>), JStr(<<"because">>)),
      ItemObj(JStr(<<"Skeptic">>), JStr(<<"is", " ", "bad">>), JStr(<<>>)),
      ItemObj(JStr(<<" ">>), JStr(<<"no", " ", "name">>), JStr(<<"s">>)),
      JObj(<<JPair(<<"name">>, JStr(<<"NoPosition">>)), JPair(<<"summary">>, JStr(<<"s">>))>>),
      JObj(<<JPair(<<"name">>, JNull), JPair(<<"position">>, JNum("1"))>>),
      JStr(<<"not an object">>) }

RECURSIVE SeqsUpTo(_, _)
\* all sequences over S of length at most n
SeqsUpTo(S, n) ==
    IF n = 0 THEN {<<>>}
    ELSE LET shorter == SeqsUpTo(S, n - 1)
         IN shorter \cup {Append(q, e) : q \in {q0 \in shorter : Len(q0) = n - 1}, e \in S}

VPLists == {JList(q) : q \in SeqsUpTo(VPItems, MaxItems)}

Fenced(x) == <<Fence, "json", "\n">> \o x \o <<"\n", Fence>>
WithProse(x) == <<"Here", " ", "are", " ", "the", " ", "viewpoints", ":", "\n">> \o x
Truncated(x) == SubSeq(x, 1, Len(x) - 1)

\* the texts a model may answer the viewpoint request with
VPTexts ==
    {<<>>, <<" ", "\n">>, Sentinel, <<"I", " ", "cannot", " ", "answer">>,
     Dumps(JStr(<<"two", " ", "sides">>)), Dumps(JNum("2")), Dumps(JNull),
     Dumps(ItemObj(JStr(<<"Optimist">>), JStr(<<"is", " ", "good">>), JStr(<<>>)))}
    \cup {Dumps(l) : l \in VPLists}
    \cup {Fenced(Dumps(l)) : l \in VPLists}
    \cup {<<Fence, "\n">> \o Dumps(l) \o <<"\n", Fence>> : l \in VPLists}
    \cup {Truncated(Dumps(l)) : l \in VPLists}
    \cup {WithProse(Dumps(l)) : l \in VPLists}
    \cup {Dumps(JObj(<<JPair(<<"viewpoints">>, l)>>)) : l \in VPLists}

VPOutcomes == {Raises, ContentNone} \cup {Content(t) : t \in VPTexts}

----------------------------------------------------------------------------
(* SpecVP: generate_viewpoints on its own, for every topic, max_agents and *)
(* outcome of the gateway call.                                            *)

Idle == [op |-> "idle"]
NoResult == [status |-> "none"]

RunIdle ==
    /\ pc = "idle" /\ cfg = <<>> /\ topic = <<>> /\ max_agents = 0 /\ num_rounds = 0
    /\ agent_models = <<>> /\ viewpoints = <<>> /\ agent_briefs = <<>> /\ agents = <<>>
    /\ conversation_log = <<>> /\ idx = 0 /\ r = 0 /\ turn = 0
    /\ judge_summary = <<>> /\ final_report = <<>> /\ result = NoResult
    /\ error = "none" /\ calls = <<>> /\ files = <<>>

InitVP == RunIdle /\ fn = Idle

CallGenerateViewpoints ==
    /\ fn = Idle
    /\ \E t \in Topics, m \in 2..MaxAgents, o \in VPOutcomes :
        /\ fn' = [op |-> "generate_viewpoints", topic |-> t, max_agents |-> m,
                  outcome |-> o, raw |-> invoke_raw(o),
                  ret |-> generate_viewpoints(invoke_raw(o), t, m)]
        /\ UNCHANGED runVars

NextVP == CallGenerateViewpoints

SpecVP == InitVP /\ [][NextVP]_vars

\* C3: for every topic, every max_agents >= 2 and every model response,
\* generate_viewpoints returns between 2 and max_agents viewpoints, each with a
\* non-empty name and a non-empty position.
C3_ViewpointCountAndFields ==
    fn.op = "generate_viewpoints" =>
        /\ Len(fn.ret) >= 2
        /\ Len(fn.ret) <= fn.max_agents
        /\ \A i \in 1..Len(fn.ret) : fn.ret[i].name # <<>> /\ fn.ret[i].position # <<>>

\* C3 witness: a parsed list with more valid viewpoints than max_agents was cut.
C3_Witness ==
    /\ fn.op = "generate_viewpoints"
    /\ json_loads(fn.raw).ok
    /\ json_loads(fn.raw).val.t = "list"
    /\ Len(ValidViewpoints(json_loads(fn.raw).val.kids)) > fn.max_agents
    /\ Len(fn.ret) = fn.max_agents

\* C4: when the gateway returns unparseable text for the viewpoint request,
\* generate_viewpoints returns exactly the canned supporting viewpoint and then the
\* canned opposing one, and each position contains the topic verbatim.
C4_UnparseableGivesCannedPair ==
    (fn.op = "generate_viewpoints" /\ fn.outcome.k = "content" /\ ~json_loads(fn.raw).ok) =>
        /\ Len(fn.ret) = 2
        /\ fn.ret[1].name = <<"Pro", " ", "Position">>
        /\ fn.ret[2].name = <<"Con", " ", "Position">>
        /\ Head(fn.ret[1].position) = "Strongly supports the statement: "
        /\ Head(fn.ret[2].position) = "Strongly opposes the statement: "
        /\ Contains(fn.ret[1].position, fn.topic)
        /\ Contains(fn.ret[2].position, fn.topic)

\* C4 witness: a non-empty answer that json.loads rejects (a fenced list).
C4_Witness ==
    /\ fn.op = "generate_viewpoints"
    /\ fn.outcome.k = "content"
    /\ fn.raw # <<>>
    /\ Head(fn.raw) = Fence
    /\ ~json_loads(fn.raw).ok
    /\ Len(fn.ret) = 2

----------------------------------------------------------------------------
(* The provider wrappers of debate/models.py: what invoke returns for each *)
(* behaviour of the backend.                                               *)

LocalTokenCap == 500          \* models.py line 240
LitGPTTokenFloor == 16384     \* models.py line 315
HttpOk == 200                 \* models.py line 330

Providers == {"openai", "anthropic", "google", "local", "litgpt"}

\* what one backend call does: it answers with a text, answers with a null content,
\* answers with an object that lacks the expected part, or raises an Exception
Ok(t) == [k |-> "ok", kind |-> "", text |-> t]
OkNone == [k |-> "none", kind |-> "", text |-> <<>>]
Malformed == [k |-> "malformed", kind |-> "", text |-> <<>>]
Err(kind) == [k |-> "err", kind |-> kind, text |-> <<>>]
NoCall == [k |-> "unused", kind |-> "", text |-> <<>>]

\* the body of an HTTP answer of the litgpt server
NoBody == [k |-> "nobody", output |-> NoCall]
BodyNotJson == [k |-> "notjson", output |-> NoCall]
BodyList == [k |-> "list", output |-> NoCall]
BodyDict(o) == [k |-> "dict", output |-> o]      \* o: Ok(t), NoCall (no key), Malformed (a number)

\* "temperature" stands for an error whose message mentions the word temperature
ErrorKinds == {"transport", "auth", "backend", "temperature"}

RECURSIVE CountAtom(_, _)
\* str.count of a one-atom pattern
CountAtom(x, a) == IF x = <<>> THEN 0
                   ELSE (IF Head(x) = a THEN 1 ELSE 0) + CountAtom(Tail(x), a)

RECURSIVE Repeat(_, _)
Repeat(a, n) == IF n <= 0 THEN <<>> ELSE <<a>> \o Repeat(a, n - 1)

\* the token limit each wrapper sends to its backend
requested_tokens(provider, max_tokens) ==
    IF provider = "local" THEN Min(max_tokens, LocalTokenCap)
    ELSE IF provider = "litgpt" THEN Max(max_tokens, LitGPTTokenFloor)
    ELSE max_tokens

\* mutant: the retry without temperature is made outside the outer try
openai_invoke_retryUnguarded(b) ==
    IF b.first.k = "err" /\ b.first.kind = "temperature"
    THEN (IF b.second.k = "err" THEN Raises
          ELSE IF b.second.k = "malformed" THEN Content(Sentinel)
          ELSE IF b.second.k = "none" THEN ContentNone
          ELSE Content(b.second.text))
    ELSE IF b.first.k \in {"err", "malformed"} THEN Content(Sentinel)
    ELSE IF b.first.k = "none" THEN ContentNone
    ELSE Content(b.first.text)

\* the response of lines 66-81: the first call, or the call repeated without temperature
openai_response(b) ==
    IF b.first.k = "err" /\ b.first.kind = "temperature" THEN b.second ELSE b.first

OpenAIModel_invoke(b) ==
    IF openai_response(b).k \in {"err", "malformed"} THEN Content(Sentinel)
    ELSE IF openai_response(b).k = "none" THEN ContentNone
    ELSE Content(openai_response(b).text)

AnthropicModel_invoke(b) ==
    IF b.first.k \in {"err", "malformed"} THEN Content(Sentinel) ELSE Content(b.first.text)

GoogleModel_invoke(b) ==
    IF b.first.k \in {"err", "malformed"} THEN Content(Sentinel) ELSE Content(b.first.text)

\* lines 278-281: a trailing comma is dropped and a closing brace is added
local_close(t) ==
    IF t[Len(t)] = ","
    THEN (IF Len(t) > 1 /\ t[Len(t) - 1] = "}" THEN SubSeq(t, 1, Len(t) - 1)
          ELSE SubSeq(t, 1, Len(t) - 1) \o <<"}">>)
    ELSE t \o <<"}">>

\* lines 259-281: the loop keeps every line, so the text is rejoined unchanged
local_complete_json(t) ==
    IF t # <<>> /\ Head(t) = "{" /\ t[Len(t)] # "}" THEN local_close(t) ELSE t

\* lines 254-256
local_default(t) == IF t = <<>> THEN <<"I cannot provide a response at this time.">> ELSE t

LocalModel_invoke(b) ==
    IF b.first.k \in {"err", "malformed"} THEN Content(Sentinel)
    ELSE Content(local_complete_json(local_default(Strip(b.first.text))))

RECURSIVE RemoveFences(_)
\* line 351: every fence-with-json tag and every fence is removed
RemoveFences(x) ==
    IF x = <<>> THEN <<>>
    ELSE IF Head(x) = Fence /\ Len(x) >= 2 /\ x[2] = "json" THEN RemoveFences(Tail(Tail(x)))
    ELSE IF Head(x) = Fence THEN RemoveFences(Tail(x))
    ELSE <<Head(x)>> \o RemoveFences(Tail(x))

\* lines 348-351
litgpt_strip_markdown(t) ==
    IF Len(t) >= 2 /\ t[1] = Fence /\ t[2] = "json" /\ t[Len(t)] # Fence
    THEN Strip(RemoveFences(t)) ELSE t

RECURSIVE litgpt_fix_numbers(_)
\* lines 358-359: a number 0.x, or a 0 or 1 before "," or "}", that follows a key's
\* colon without a space gets an opening quote (and before "}" a closing one)
litgpt_fix_numbers(x) ==
    IF Len(x) < 3 THEN x
    ELSE IF x[1] = Quote /\ x[2] = ":" /\ x[3] \in {"0.25"}
        THEN <<Quote, ":", " ", Quote, x[3]>> \o litgpt_fix_numbers(SubSeq(x, 4, Len(x)))
    ELSE IF x[1] = Quote /\ x[2] = ":" /\ x[3] \in {"0", "1"} /\ Len(x) >= 4 /\ x[4] = ","
        THEN <<Quote, ":", " ", Quote, x[3], ",">> \o litgpt_fix_numbers(SubSeq(x, 5, Len(x)))
    ELSE IF x[1] = Quote /\ x[2] = ":" /\ x[3] \in {"0", "1"} /\ Len(x) >= 4 /\ x[4] = "}"
        THEN <<Quote, ":", " ", Quote, x[3], Quote, "}">> \o litgpt_fix_numbers(SubSeq(x, 5, Len(x)))
    ELSE <<Head(x)>> \o litgpt_fix_numbers(Tail(x))

\* lines 362-380: the missing closing braces, then the missing closing brackets
litgpt_close(g) ==
    g \o Repeat("}", CountAtom(g, "{") - CountAtom(g, "}"))
      \o Repeat("]", CountAtom(g, "[") - CountAtom(g, "]"))

\* lines 354-383
litgpt_complete_json(t) ==
    IF t # <<>> /\ Head(t) = "{" /\ t[Len(t)] # "}"
    THEN litgpt_close(litgpt_fix_numbers(t)) ELSE t

\* str(result) of a response dict without a usable "output"
litgpt_str_result(body) ==
    IF body.output.k = "ok"
    THEN <<"{", "'output'", ":", " ", "''", "}">>
    ELSE <<"{", "'detail'", ":", " ", "'Not Found'", "}">>

\* lines 338-341
litgpt_generated_text(body) ==
    IF body.output.k = "ok" /\ body.output.text # <<>> THEN body.output.text
    ELSE litgpt_str_result(body)

LitGPTModel_invoke(b) ==
    IF b.first.k = "err" THEN Content(Sentinel)                    \* post raises
    ELSE IF b.status # HttpOk THEN Content(Sentinel)               \* lines 386-388
    ELSE IF b.body.k # "dict" THEN Content(Sentinel)               \* json() or .get raises
    ELSE IF b.body.output.k = "malformed" THEN Content(Sentinel)   \* slicing a number raises
    ELSE Content(litgpt_complete_json(litgpt_strip_markdown(litgpt_generated_text(b.body))))

\* one behaviour of a backend: its answer to the call, to the repeated call, and for
\* the HTTP endpoint the status and body
Backend(first, second, status, body) ==
    [first |-> first, second |-> second, status |-> status, body |-> body]

\* BaseModel.invoke of the wrapper LLMFactory.make built for the provider
invoke(provider, b) ==
    IF provider = "openai" THEN OpenAIModel_invoke(b)
    ELSE IF provider = "anthropic" THEN AnthropicModel_invoke(b)
    ELSE IF provider = "google" THEN GoogleModel_invoke(b)
    ELSE IF provider = "local" THEN LocalModel_invoke(b)
    ELSE LitGPTModel_invoke(b)

----------------------------------------------------------------------------
(* Spec: one run of run_interactive_debate.  The file system is taken to   *)
(* work: every write succeeds.                                             *)

\* the pairing entries the runs are given: whether the pairing exists, the roles it
\* defines, the roles whose provider wrapper cannot be constructed (missing key), the
\* roles whose backend is unreachable during the run and the roles whose model answers
\* a turn with a text longer than the history limit of format_history
RoleSets == { {"A"}, {"B"}, {"A", "B"}, {"A", "B", "judge"}, {"A", "B", "C"} }
PairingConfigs ==
    { [found |-> FALSE, roles |-> {}, nocred |-> {}, down |-> {}, long |-> {}] }
    \cup UNION { { [found |-> TRUE, roles |-> rs, nocred |-> nc, down |-> {}, long |-> {}] :
                      nc \in IF "judge" \in rs THEN {{"A"}, {"B"}, {"judge"}}
                                               ELSE {{}, {"A"}, {"B"}, {"C"}} } :
                  rs \in RoleSets }
    \cup { [found |-> TRUE, roles |-> rs, nocred |-> {}, down |-> {d}, long |-> {}] :
             rs \in {{"A", "B"}, {"A", "B", "C"}}, d \in {"A", "B"} }
    \cup { [found |-> TRUE, roles |-> {"A", "B", "C"}, nocred |-> {}, down |-> {},
            long |-> {"A", "B"}] }

RunTopics == { <<"Should", " ", "banks", " ", "issue", " ", "CBDCs", "?">> }

GoodItem(i) == ItemObj(JStr(<<"Side", IntAtom(i)>>), JStr(<<"stance", " ", IntAtom(i)>>),
                       JStr(IF i = 2 THEN <<>> ELSE <<"why", " ", IntAtom(i)>>))
GoodList(k) == JList([i \in 1..k |-> GoodItem(i)])

\* outcomes of the viewpoint call in a run
RunVPOutcomes ==
    {Raises, Content(<<>>), Content(Dumps(JList(<<GoodItem(1), GoodItem(1)>>)))}
    \cup {Content(Dumps(GoodList(k))) : k \in 1..MaxAgents}

StructuredBriefText ==
    Fenced(Dumps(JObj(<< JPair(<<"summary_for_prompt">>, JStr(<<"notes">>)),
                         JPair(<<"supporting_arguments">>, JList(<<JStr(<<"claim">>)>>)) >>)))

\* outcomes of the two calls of generate_agent_brief in a run
RunBriefOutcomes ==
    { <<Raises, Content(<<>>)>>,
      <<Content(StructuredBriefText), Content(<<"dossier">>)>> }

\* outcomes of a turn call, of the judge call and of a report call in a run
RunTurnOutcomes == {Raises, Content(<<>>), Content(<<"I", " ", "rebut">>)}
RunJudgeOutcomes == {Content(<<>>), Content(<<"judge", " ", "summary">>)}
RunReportOutcomes == {Raises, Content(<<>>), Content(<<"the", " ", "report">>)}

Handle(role, slot) == [role |-> role, slot |-> slot]
\* one model.invoke: the handle, the request, the transcript text its user prompt
\* carries (empty for the requests made before the debate) and what invoke_raw returned
Call(h, kind, history, reply) == [to |-> h, kind |-> kind, history |-> history, reply |-> reply]

limit_chars == 3000          \* line 454: the default of format_history
ShortHistoryChars == 4000    \* line 586

Placeholder == <<"[No response due to API error; treating as empty turn.]">>

\* what invoke returns when the backend of the wrapper cannot be reached
DownOutcome == invoke("litgpt", Backend(Err("transport"), NoCall, 0, NoBody))

\* a reply of more characters than format_history keeps
LongReply == [i \in 1..(limit_chars + 100) |-> "x"]

\* the outcomes of a call to handle h in a run given the pairing c: S when the backend
\* of h answers, the wrapper's recovery when it is unreachable
OutcomesOf(c, h, S) == IF h.role \in c.down THEN {DownOutcome} ELSE S

\* the outcomes of a turn call to handle h: the long reply when the model of h is one
\* that writes its turns at length
TurnOutcomesOf(c, h) ==
    IF h.role \in c.long THEN {Content(LongReply)} ELSE OutcomesOf(c, h, RunTurnOutcomes)
BriefOutcomesOf(c, h) ==
    IF h.role \in c.down THEN {<<DownOutcome, DownOutcome>>} ELSE RunBriefOutcomes

Init ==
    /\ pc = "start"
    /\ cfg \in PairingConfigs
    /\ cfg.nocred \subseteq cfg.roles
    /\ cfg.down \subseteq cfg.roles
    /\ topic \in RunTopics
    /\ max_agents \in 2..MaxAgents
    /\ num_rounds \in 0..MaxRounds
    /\ num_rounds * max_agents <= MaxTurns
    /\ agent_models = <<>> /\ viewpoints = <<>> /\ agent_briefs = <<>> /\ agents = <<>>
    /\ conversation_log = <<>> /\ idx = 0 /\ r = 0 /\ turn = 0
    /\ judge_summary = <<>> /\ final_report = <<>> /\ result = NoResult
    /\ error = "none" /\ calls = <<>> /\ files = <<>>
    /\ fn = Idle

\* mutant: a wrapper with missing credentials is constructed all the same
construction_error_noCredentialCheck(c) ==
    IF ~c.found \/ "A" \notin c.roles \/ "B" \notin c.roles THEN "KeyError" ELSE "none"

\* the exception lines 358-369 raise for a config, "none" when the pool is built
construction_error(c) ==
    IF ~c.found THEN "KeyError"
    ELSE IF "A" \notin c.roles THEN "KeyError"
    ELSE IF "A" \in c.nocred THEN "ValueError"
    ELSE IF "B" \notin c.roles THEN "KeyError"
    ELSE IF "B" \in c.nocred THEN "ValueError"
    ELSE IF "C" \in c.roles /\ "C" \in c.nocred THEN "ValueError"
    ELSE "none"

\* the pool of lines 361-369
build_agent_models(c) ==
    << Handle("A", 1), Handle("B", 2),
       IF "C" \in c.roles THEN Handle("C", 3) ELSE Handle("A", 3) >>

\* lines 352-387, the pool is built
Start ==
    /\ pc = "start"
    /\ construction_error(cfg) = "none"
    /\ agent_models' = build_agent_models(cfg)
    /\ pc' = "viewpoints"
    /\ UNCHANGED <<cfg, topic, max_agents, num_rounds, viewpoints, agent_briefs, agents,
                   conversation_log, idx, r, turn, judge_summary, final_report, result,
                   error, calls, files, fn>>

\* lines 358-367, the pairing or one of its roles is absent: KeyError
StartConfigAbsent ==
    /\ pc = "start"
    /\ construction_error(cfg) = "KeyError"
    /\ pc' = "raised"
    /\ error' = "KeyError"
    /\ UNCHANGED <<cfg, topic, max_agents, num_rounds, agent_models, viewpoints,
                   agent_briefs, agents, conversation_log, idx, r, turn, judge_summary,
                   final_report, result, calls, files, fn>>

\* lines 362-367, a provider wrapper's constructor raises: ValueError
StartNoCredentials ==
    /\ pc = "start"
    /\ construction_error(cfg) = "ValueError"
    /\ pc' = "raised"
    /\ error' = "ValueError"
    /\ UNCHANGED <<cfg, topic, max_agents, num_rounds, agent_models, viewpoints,
                   agent_briefs, agents, conversation_log, idx, r, turn, judge_summary,
                   final_report, result, calls, files, fn>>

\* lines 387-395
GenerateViewpoints ==
    /\ pc = "viewpoints"
    /\ \E o \in OutcomesOf(cfg, agent_models[1],
                          RunVPOutcomes \cup {Content(Dumps(GoodList(max_agents)))}) :
        /\ calls' = Append(calls, Call(agent_models[1], "viewpoints", <<>>, invoke_raw(o)))
        /\ viewpoints' = generate_viewpoints(invoke_raw(o), topic, max_agents)
    /\ idx' = 1
    /\ pc' = "agents"
    /\ UNCHANGED <<cfg, topic, max_agents, num_rounds, agent_models, agent_briefs, agents,
                   conversation_log, r, turn, judge_summary, final_report, result, error,
                   files, fn>>

\* mutant: agents beyond the pool all get its last handle
agent_model_of_noWrap(i) == agent_models[Min(i, Len(agent_models))]

\* lines 403-404: the handle and the role key of the agent with loop index i
agent_model_of(i) == agent_models[((i - 1) % Len(agent_models)) + 1]
model_key_of(i) == <<"A", "B", "C">>[((i - 1) % Len(agent_models)) + 1]

\* mutant: the agent's position is taken from the wrong field of the viewpoint
agent_record_positionFromSummary(vp, brief, handle) ==
    [name |-> vp.name, position |-> vp.summary, summary |-> vp.summary,
     system_prompt |-> system_prompt(vp, brief), messages |-> <<>>, brief |-> brief,
     model |-> handle]

\* lines 427-437
agent_record(vp, brief, handle) ==
    [name |-> vp.name, position |-> vp.position, summary |-> vp.summary,
     system_prompt |-> system_prompt(vp, brief), messages |-> <<>>, brief |-> brief,
     model |-> handle]

\* one iteration of the loop of lines 399-437
BuildAgent ==
    /\ pc = "agents"
    /\ idx <= Len(viewpoints)
    /\ model_key_of(idx) \in cfg.roles
    /\ \E os \in BriefOutcomesOf(cfg, agent_model_of(idx)) :
        /\ calls' = calls \o << Call(agent_model_of(idx), "brief", <<>>, invoke_raw(os[1])),
                                Call(agent_model_of(idx), "dossier", <<>>, invoke_raw(os[2])) >>
        /\ agent_briefs' = Append(agent_briefs,
                                  generate_agent_brief(invoke_raw(os[1]), invoke_raw(os[2]),
                                                       topic, viewpoints[idx], idx))
    /\ files' = Append(files, [path |-> brief_path(idx, viewpoints[idx].name),
                               kind |-> "brief"])
    /\ agents' = Append(agents, agent_record(viewpoints[idx], agent_briefs'[idx],
                                             agent_model_of(idx)))
    /\ idx' = idx + 1
    /\ UNCHANGED <<pc, cfg, topic, max_agents, num_rounds, agent_models, viewpoints,
                   conversation_log, r, turn, judge_summary, final_report, result, error, fn>>

\* line 405: pairing_cfg[model_key] for a role the pairing does not define: KeyError
BuildAgentKeyError ==
    /\ pc = "agents"
    /\ idx <= Len(viewpoints)
    /\ model_key_of(idx) \notin cfg.roles
    /\ pc' = "raised"
    /\ error' = "KeyError"
    /\ UNCHANGED <<cfg, topic, max_agents, num_rounds, agent_models, viewpoints,
                   agent_briefs, agents, conversation_log, idx, r, turn, judge_summary,
                   final_report, result, calls, files, fn>>

RECURSIVE SetupLines(_, _)
SetupLines(vps, i) ==
    IF i > Len(vps) THEN <<>>
    ELSE << <<"Agent ", IntAtom(i), " (">> \o vps[i].name \o <<"): ">> \o vps[i].position >>
         \o SetupLines(vps, i + 1)

\* mutant: the setup entry is numbered as a turn of the first round
setup_entry_asRoundOne(vps) ==
    [speaker |-> <<"Research / Setup">>,
     content |-> <<"Initial viewpoints (Round 0 - research/setup):", "\n">>
                 \o JoinLines(SetupLines(vps, 1)),
     round |-> 1]

\* lines 442-452: the round-0 entry of the transcript
setup_entry(vps) ==
    [speaker |-> <<"Research / Setup">>,
     content |-> <<"Initial viewpoints (Round 0 - research/setup):", "\n">>
                 \o JoinLines(SetupLines(vps, 1)),
     round |-> 0]

\* lines 439-452: the transcript starts with the round-0 entry
RecordSetup ==
    /\ pc = "agents"
    /\ idx > Len(viewpoints)
    /\ conversation_log' = <<setup_entry(viewpoints)>>
    /\ r' = 1
    /\ turn' = 1
    /\ pc' = IF num_rounds >= 1 /\ Len(agents) >= 1 THEN "rounds" ELSE "judge"
    /\ UNCHANGED <<cfg, topic, max_agents, num_rounds, agent_models, viewpoints,
                   agent_briefs, agents, idx, judge_summary, final_report, result, error,
                   calls, files, fn>>

RECURSIVE history_text(_)
\* lines 456-458 and 510-512: every entry as "speaker: content" and a newline
history_text(log) ==
    IF log = <<>> THEN <<>>
    ELSE Head(log).speaker \o <<":", " ">> \o Head(log).content \o <<"\n">>
         \o history_text(Tail(log))

\* mutant: the first limit_chars characters are kept instead of the last
format_history_keepHead(log) ==
    IF Len(history_text(log)) > limit_chars
    THEN SliceTo(history_text(log), limit_chars)
    ELSE history_text(log)

\* lines 454-461
format_history(log) ==
    IF Len(history_text(log)) > limit_chars
    THEN SliceLast(history_text(log), limit_chars)
    ELSE history_text(log)

RECURSIVE full_history(_)
\* lines 549-555: every entry with its round tag
full_history(log) ==
    IF log = <<>> THEN <<>>
    ELSE <<"[Round ", IntAtom(Head(log).round), "] ">> \o Head(log).speaker \o <<":", " ">>
         \o Head(log).content \o <<"\n">> \o full_history(Tail(log))

\* line 586
short_history(log) == SliceLast(full_history(log), ShortHistoryChars)

\* mutant: an empty reply is logged as it is
turn_reply_keepEmpty(raw) == raw

\* lines 490-492: the text of a turn
turn_reply(raw) == IF raw = <<>> THEN Placeholder ELSE raw

\* mutant: an empty turn is left out of the transcript
log_after_turn_dropEmpty(log, speaker, raw, round) ==
    IF raw = <<>> THEN log
    ELSE Append(log, [speaker |-> speaker, content |-> raw, round |-> round])

\* mutant: the entry is stamped with the number of entries instead of the round
log_after_turn_roundFromLength(log, speaker, raw, round) ==
    Append(log, [speaker |-> speaker, content |-> turn_reply(raw), round |-> Len(log)])

\* mutant: the new entry is put in front of the transcript
log_after_turn_prepend(log, speaker, raw, round) ==
    <<[speaker |-> speaker, content |-> turn_reply(raw), round |-> round]>> \o log

\* lines 490-500: the transcript after a turn whose call returned raw
log_after_turn(log, speaker, raw, round) ==
    Append(log, [speaker |-> speaker, content |-> turn_reply(raw), round |-> round])

\* mutant: a turn whose reply is empty is asked again instead of being recorded
TakeTurn_retryOnEmpty ==
    /\ pc = "rounds"
    /\ \E o \in TurnOutcomesOf(cfg, agents[turn].model) :
        /\ calls' = Append(calls, Call(agents[turn].model, "turn", format_history(conversation_log),
                                  invoke_raw(o)))
        /\ IF invoke_raw(o) = <<>> /\ Len(calls) < 4 * MaxTurns
           THEN UNCHANGED <<conversation_log, agents, turn, r, pc>>
           ELSE /\ conversation_log' = log_after_turn(conversation_log, agents[turn].name,
                                                       invoke_raw(o), r)
                /\ agents' = [agents EXCEPT ![turn].messages =
                                  Append(@, [round |-> r, content |-> turn_reply(invoke_raw(o))])]
                /\ turn' = IF turn < Len(agents) THEN turn + 1 ELSE 1
                /\ r' = IF turn < Len(agents) THEN r ELSE r + 1
                /\ pc' = IF turn = Len(agents) /\ r = num_rounds THEN "judge" ELSE "rounds"
    /\ UNCHANGED <<cfg, topic, max_agents, num_rounds, agent_models, viewpoints,
                   agent_briefs, idx, judge_summary, final_report, result, error, files, fn>>

\* mutant: the agent's own messages get the reply as it came, the transcript the placeholder
TakeTurn_messagesRaw ==
    /\ pc = "rounds"
    /\ \E o \in TurnOutcomesOf(cfg, agents[turn].model) :
        /\ calls' = Append(calls, Call(agents[turn].model, "turn", format_history(conversation_log),
                                  invoke_raw(o)))
        /\ conversation_log' = log_after_turn(conversation_log, agents[turn].name,
                                              invoke_raw(o), r)
        /\ agents' = [agents EXCEPT ![turn].messages =
                          Append(@, [round |-> r, content |-> invoke_raw(o)])]
    /\ turn' = IF turn < Len(agents) THEN turn + 1 ELSE 1
    /\ r' = IF turn < Len(agents) THEN r ELSE r + 1
    /\ pc' = IF turn = Len(agents) /\ r = num_rounds THEN "judge" ELSE "rounds"
    /\ UNCHANGED <<cfg, topic, max_agents, num_rounds, agent_models, viewpoints,
                   agent_briefs, idx, judge_summary, final_report, result, error, files, fn>>

\* mutant: the turn is filed under the speaker's name, in every agent that has it
TakeTurn_messagesByName ==
    /\ pc = "rounds"
    /\ \E o \in TurnOutcomesOf(cfg, agents[turn].model) :
        /\ calls' = Append(calls, Call(agents[turn].model, "turn", format_history(conversation_log),
                                  invoke_raw(o)))
        /\ conversation_log' = log_after_turn(conversation_log, agents[turn].name,
                                              invoke_raw(o), r)
        /\ agents' = [i \in 1..Len(agents) |->
                          IF agents[i].name = agents[turn].name
                          THEN [agents[i] EXCEPT !.messages =
                                   Append(@, [round |-> r, content |-> turn_reply(invoke_raw(o))])]
                          ELSE agents[i]]
    /\ turn' = IF turn < Len(agents) THEN turn + 1 ELSE 1
    /\ r' = IF turn < Len(agents) THEN r ELSE r + 1
    /\ pc' = IF turn = Len(agents) /\ r = num_rounds THEN "judge" ELSE "rounds"
    /\ UNCHANGED <<cfg, topic, max_agents, num_rounds, agent_models, viewpoints,
                   agent_briefs, idx, judge_summary, final_report, result, error, files, fn>>

\* one iteration of the inner loop of lines 466-501
TakeTurn ==
    /\ pc = "rounds"
    /\ \E o \in TurnOutcomesOf(cfg, agents[turn].model) :
        /\ calls' = Append(calls, Call(agents[turn].model, "turn", format_history(conversation_log),
                                  invoke_raw(o)))
        /\ conversation_log' = log_after_turn(conversation_log, agents[turn].name,
                                              invoke_raw(o), r)
        /\ agents' = [agents EXCEPT ![turn].messages =
                          Append(@, [round |-> r, content |-> turn_reply(invoke_raw(o))])]
    /\ turn' = IF turn < Len(agents) THEN turn + 1 ELSE 1
    /\ r' = IF turn < Len(agents) THEN r ELSE r + 1
    /\ pc' = IF turn = Len(agents) /\ r = num_rounds THEN "judge" ELSE "rounds"
    /\ UNCHANGED <<cfg, topic, max_agents, num_rounds, agent_models, viewpoints,
                   agent_briefs, idx, judge_summary, final_report, result, error, files, fn>>

\* mutant: the judge call goes to a gateway of the pairing's judge role when it has one
Judge_onJudgeRole ==
    /\ pc = "judge"
    /\ \E o \in OutcomesOf(cfg, agent_models[1], RunJudgeOutcomes) :
        /\ calls' = Append(calls, Call(IF "judge" \in cfg.roles THEN Handle("judge", 0)
                                       ELSE agent_models[1],
                                       "judge", history_text(conversation_log), invoke_raw(o)))
        /\ judge_summary' = invoke_raw(o)
    /\ pc' = "report"
    /\ UNCHANGED <<cfg, topic, max_agents, num_rounds, agent_models, viewpoints,
                   agent_briefs, agents, conversation_log, idx, r, turn, final_report,
                   result, error, files, fn>>

\* mutant: the judge is given the bounded history of a turn
Judge_boundedHistory ==
    /\ pc = "judge"
    /\ \E o \in OutcomesOf(cfg, agent_models[1], RunJudgeOutcomes) :
        /\ calls' = Append(calls, Call(agent_models[1], "judge", format_history(conversation_log),
                                  invoke_raw(o)))
        /\ judge_summary' = invoke_raw(o)
    /\ pc' = "report"
    /\ UNCHANGED <<cfg, topic, max_agents, num_rounds, agent_models, viewpoints,
                   agent_briefs, agents, conversation_log, idx, r, turn, final_report,
                   result, error, files, fn>>

\* lines 503-529
Judge ==
    /\ pc = "judge"
    /\ \E o \in OutcomesOf(cfg, agent_models[1], RunJudgeOutcomes) :
        /\ calls' = Append(calls, Call(agent_models[1], "judge", history_text(conversation_log),
                                  invoke_raw(o)))
        /\ judge_summary' = invoke_raw(o)
    /\ pc' = "report"
    /\ UNCHANGED <<cfg, topic, max_agents, num_rounds, agent_models, viewpoints,
                   agent_briefs, agents, conversation_log, idx, r, turn, final_report,
                   result, error, files, fn>>

\* mutant: the text of the retry is discarded for the template
report_fallback_alwaysTemplate(raw, t, vps) == template_report(t, vps)

\* lines 603-654: the report after the retry answered raw
report_fallback(raw, t, vps) == IF raw = <<>> THEN template_report(t, vps) ELSE raw

\* mutant: the internal agent records are put in the result as they are
debate_result_wholeAgents(report) ==
    [status |-> "returned", topic |-> topic, viewpoints |-> viewpoints,
     agent_briefs |-> agent_briefs, agents |-> agents,
     conversation_log |-> conversation_log, judge_summary |-> judge_summary,
     final_report |-> report, timestamp |-> "time.time()"]

\* mutant: the judge summary is stored as the final report
debate_result_judgeAsReport(report) ==
    [status |-> "returned", topic |-> topic, viewpoints |-> viewpoints,
     agent_briefs |-> agent_briefs,
     agents |-> [i \in 1..Len(agents) |->
                   [name |-> agents[i].name, position |-> agents[i].position,
                    summary |-> agents[i].summary, messages |-> agents[i].messages]],
     conversation_log |-> conversation_log, judge_summary |-> judge_summary,
     final_report |-> judge_summary, timestamp |-> "time.time()"]

\* lines 656-674: the result payload, report the final report
debate_result(report) ==
    [status |-> "returned",
     topic |-> topic,
     viewpoints |-> viewpoints,
     agent_briefs |-> agent_briefs,
     agents |-> [i \in 1..Len(agents) |->
                   [name |-> agents[i].name, position |-> agents[i].position,
                    summary |-> agents[i].summary, messages |-> agents[i].messages]],
     conversation_log |-> conversation_log,
     judge_summary |-> judge_summary,
     final_report |-> report,
     timestamp |-> "time.time()"]

\* lines 656-683: build the result, save it, return it
Finish(report) ==
    /\ final_report' = report
    /\ result' = debate_result(report)
    /\ files' = Append(files, [path |-> <<"interactive_debate_", "%Y%m%d_%H%M%S", ".json">>,
                               kind |-> "result", content |-> result'])
    /\ pc' = "done"

\* lines 531-581: the full-report attempt; a non-empty report ends the run (656-683)
Report ==
    /\ pc = "report"
    /\ \E o \in OutcomesOf(cfg, agent_models[1], RunReportOutcomes) :
        /\ calls' = Append(calls, Call(agent_models[1], "report", full_history(conversation_log),
                                  invoke_raw(o)))
        /\ IF invoke_raw(o) = <<>>
           THEN /\ pc' = "retry"
                /\ UNCHANGED <<final_report, result, files>>
           ELSE Finish(invoke_raw(o))
    /\ UNCHANGED <<cfg, topic, max_agents, num_rounds, agent_models, viewpoints,
                   agent_briefs, agents, conversation_log, idx, r, turn, judge_summary,
                   error, fn>>

\* lines 583-683: the shortened-prompt retry, then the template, then the result
ReportRetry ==
    /\ pc = "retry"
    /\ \E o \in OutcomesOf(cfg, agent_models[1], RunReportOutcomes) :
        /\ calls' = Append(calls, Call(agent_models[1], "report_retry", short_history(conversation_log),
                                  invoke_raw(o)))
        /\ Finish(report_fallback(invoke_raw(o), topic, viewpoints))
    /\ UNCHANGED <<cfg, topic, max_agents, num_rounds, agent_models, viewpoints,
                   agent_briefs, agents, conversation_log, idx, r, turn, judge_summary,
                   error, fn>>

Next ==
    \/ Start
    \/ StartConfigAbsent
    \/ StartNoCredentials
    \/ GenerateViewpoints
    \/ BuildAgent
    \/ BuildAgentKeyError
    \/ RecordSetup
    \/ TakeTurn
    \/ Judge
    \/ Report
    \/ ReportRetry

Spec == Init /\ [][Next]_vars

----------------------------------------------------------------------------
(* SpecManyAgents: runs that ask for one agent more than the pool has      *)
(* handles, over MaxRounds rounds.  The backends of roles B and C are       *)
(* unreachable in these runs, so that only the calls to role A vary.        *)

ManyAgentConfigs ==
    { [found |-> FALSE, roles |-> {}, nocred |-> {}, down |-> {}, long |-> {}],
      [found |-> TRUE, roles |-> {"A", "B"}, nocred |-> {"A"}, down |-> {}, long |-> {}],
      [found |-> TRUE, roles |-> {"A", "B"}, nocred |-> {}, down |-> {"B"}, long |-> {}],
      [found |-> TRUE, roles |-> {"A", "B", "C"}, nocred |-> {}, down |-> {"B", "C"},
       long |-> {}] }

InitManyAgents ==
    /\ pc = "start"
    /\ cfg \in ManyAgentConfigs
    /\ topic \in RunTopics
    /\ max_agents = MaxAgents + 1
    /\ num_rounds = MaxRounds
    /\ agent_models = <<>> /\ viewpoints = <<>> /\ agent_briefs = <<>> /\ agents = <<>>
    /\ conversation_log = <<>> /\ idx = 0 /\ r = 0 /\ turn = 0
    /\ judge_summary = <<>> /\ final_report = <<>> /\ result = NoResult
    /\ error = "none" /\ calls = <<>> /\ files = <<>>
    /\ fn = Idle

SpecManyAgents == InitManyAgents /\ [][Next]_vars

----------------------------------------------------------------------------
(* Properties of a run (Spec). *)

AfterRounds == pc \in {"judge", "report", "retry", "done"}
PoolBuilt == cfg.found /\ {"A", "B"} \subseteq cfg.roles /\ cfg.nocred = {}
AllRepliesEmpty == \A i \in 1..Len(calls) : calls[i].reply = <<>>

\* C1: whatever the gateway does on each call (text, empty text, the sentinel, an
\* exception), a run whose pairing defines roles A and B runs to the end and returns a
\* DebateResult; no model response aborts it.
C1_RunNeverAborts ==
    PoolBuilt =>
        /\ pc # "raised"
        /\ error = "none"
        /\ (pc = "done" => result.status = "returned")

\* C2: after a run with N rounds and K agents the conversation log has exactly
\* 1 + N*K entries, whether a turn's reply was text or the placeholder.
C2_LogLength ==
    /\ AfterRounds => Len(conversation_log) = 1 + num_rounds * Len(viewpoints)
    /\ pc = "done" => Len(result.conversation_log) = 1 + num_rounds * Len(result.viewpoints)

\* C2 witness: a finished run of 1 round and 3 agents with a placeholder turn and a
\* turn of real text.
C2_Witness ==
    /\ pc = "done"
    /\ num_rounds >= 1
    /\ Len(viewpoints) = 3
    /\ \E i \in 2..Len(conversation_log) : conversation_log[i].content = Placeholder
    /\ \E i \in 2..Len(conversation_log) : conversation_log[i].content # Placeholder

\* C5: the final report of a run is never empty; when every gateway call returned the
\* empty string it is the deterministic template, which contains the topic.
C5_ReportNeverEmpty ==
    pc = "done" =>
        /\ final_report # <<>>
        /\ result.final_report = final_report
        /\ AllRepliesEmpty =>
              /\ Head(final_report) = "1. Research Question & Context"
              /\ Contains(final_report, <<"   - Topic: ">> \o topic)
              /\ Contains(final_report, viewpoints[1].position)
              /\ Contains(final_report, viewpoints[2].position)

\* C5 witness: a finished run in which every gateway call returned the empty string.
C5_Witness ==
    /\ pc = "done"
    /\ AllRepliesEmpty
    /\ num_rounds >= 1
    /\ Len(calls) = 1 + 2 * Len(viewpoints) + num_rounds * Len(viewpoints) + 3

\* C6: with 3 agents and a pool built from roles A and B only, the agents at creation
\* indices 0 and 2 get model A and the agent at index 1 gets model B.
C6_RoundRobinThreeAgentsTwoModels ==
    (PoolBuilt /\ "C" \notin cfg.roles /\ Len(viewpoints) >= 3 /\ pc \notin {"viewpoints", "agents"}) =>
        /\ Len(agents) >= 3
        /\ agents[1].model.role = "A"
        /\ agents[2].model.role = "B"
        /\ agents[3].model.role = "A"

\* C7: without a role C the third pool slot reuses role A, and a run with three or
\* more viewpoints completes setup: a brief, an agent and the round-0 entry for every
\* viewpoint, the agent at creation index 2 on a role-A gateway.
C7_ThirdSlotFallbackCompletesSetup ==
    (PoolBuilt /\ "C" \notin cfg.roles /\ Len(viewpoints) >= 3) =>
        /\ agent_models[3].role = "A"
        /\ pc \notin {"viewpoints", "agents"} =>
              /\ Len(agent_briefs) = Len(viewpoints)
              /\ Len(agents) = Len(viewpoints)
              /\ Len(conversation_log) >= 1
              /\ agents[3].model = agent_models[3]

\* the roles whose wrappers lines 362-369 construct
ConstructedRoles == {"A", "B"} \cup (cfg.roles \cap {"C"})
NoRunState ==
    /\ calls = <<>> /\ viewpoints = <<>> /\ agent_briefs = <<>> /\ agents = <<>>
    /\ conversation_log = <<>> /\ files = <<>> /\ result = NoResult

\* C9 as stated: a gateway whose credentials are missing never propagates an exception
\* to the coordinator.
C9_MissingCredentialsNeverPropagate ==
    (cfg.nocred \cap ConstructedRoles # {}) => error = "none"

\* C9 as amended: when the credentials of a role of the pool are missing, the wrapper's
\* constructor raises and run_interactive_debate propagates the ValueError to its caller
\* while the pool is built, before any gateway call is issued and before any run state
\* exists; nothing is surfaced as a sentinel payload.
C9_MissingCredentialsFailAtConstruction ==
    /\ (cfg.found /\ {"A", "B"} \subseteq cfg.roles /\ cfg.nocred \cap ConstructedRoles # {}
        /\ pc # "start")
          => (pc = "raised" /\ error = "ValueError" /\ NoRunState)
    /\ error = "ValueError" => (cfg.nocred \cap ConstructedRoles # {} /\ NoRunState)

\* C9 witness: a run given a pairing whose role B has no credentials has raised.
C9_Witness ==
    /\ pc = "raised"
    /\ error = "ValueError"
    /\ "B" \in cfg.nocred
    /\ {"A", "B"} \subseteq cfg.roles

\* C10: when the pairing has no entry for a role the run needs, the run fails before
\* any gateway call is issued and before any viewpoint, brief, brief file, agent or
\* conversation-log entry exists.
C10_ConfigAbsenceFailsBeforeRunState ==
    error = "KeyError" => NoRunState

----------------------------------------------------------------------------
(* SpecInvoke: the invoke method of the five provider wrappers of          *)
(* debate/models.py, each on its own, for every behaviour of its backend.  *)

\* an object with a nested list, and its text cut inside the list
NestedValue ==
    JObj(<< JPair(<<"a">>, JNum("1")), JPair(<<"b">>, JList(<<JNum("2"), JNum("3")>>)) >>)
NestedFragment == SubSeq(Dumps(NestedValue), 1, Len(Dumps(NestedValue)) - 2)

\* the texts a backend may generate
InvokeTexts ==
    { NestedFragment, Dumps(NestedValue), <<>>, <<" ", "\n">>, <<"Hello", " ", "there">>, Sentinel,
      Dumps(GoodItem(1)), Truncated(Dumps(GoodItem(1))), Fenced(Dumps(GoodItem(1))),
      <<Fence, "json", "\n">> \o Truncated(Dumps(GoodItem(1))),
      <<"{", Quote, "score", Quote, ":", "0.25">>,
      <<"{", Quote, "a", Quote, ":", "0", ",">>,
      <<"{", Quote, "a", Quote, ":", "[", "{", Quote, "b", Quote, ":", "1", "}", ",">> }

Replies == {Ok(t) : t \in InvokeTexts} \cup {Err(e) : e \in ErrorKinds} \cup {Malformed}

\* the behaviours of the backend of each provider
BackendsOf(provider) ==
    IF provider = "openai"
    THEN {Backend(f, NoCall, 0, NoBody) : f \in Replies \cup {OkNone}}
         \cup {Backend(Err("temperature"), s, 0, NoBody) : s \in Replies \cup {OkNone}}
    ELSE IF provider = "litgpt"
    THEN {Backend(Err(e), NoCall, 0, NoBody) : e \in ErrorKinds}
         \cup {Backend(Ok(<<>>), NoCall, st, BodyDict(Ok(<<"x">>))) : st \in {404, 500, 503}}
         \cup {Backend(Ok(<<>>), NoCall, HttpOk, bd) :
                   bd \in {BodyNotJson, BodyList, BodyDict(NoCall), BodyDict(Malformed)}
                          \cup {BodyDict(Ok(t)) : t \in InvokeTexts}}
    ELSE {Backend(f, NoCall, 0, NoBody) : f \in Replies}

MaxTokenSettings == {256, 1024, 20000}

InitInvoke == RunIdle /\ fn = Idle

CallInvoke ==
    /\ fn = Idle
    /\ \E p \in Providers, mt \in MaxTokenSettings :
        \E b \in BackendsOf(p) :
            /\ fn' = [op |-> "invoke", provider |-> p, max_tokens |-> mt,
                      asked |-> requested_tokens(p, mt), backend |-> b,
                      ret |-> invoke(p, b)]
            /\ UNCHANGED runVars

\* what model.invoke can do under invoke_raw: raise, or return an object with a content
\* (a text or None) or without one
RawTexts ==
    { <<>>, <<" ">>, <<"\n", " ">>, <<"ok">>, <<" ", "ok">>, <<"ok", "\n">>,
      <<" ", "two", " ", "words", "\n", "\n">>, <<"line", "\n", "line">>, Sentinel }
RawOutcomes ==
    {Raises, ContentNone} \cup {Content(t) : t \in RawTexts}
                          \cup {NoContentAttr(t) : t \in RawTexts}

\* invoke_raw over a model that behaves in one of these ways, or over a provider wrapper
CallInvokeRaw ==
    /\ fn = Idle
    /\ \E o \in RawOutcomes \cup UNION {{invoke(p, b) : b \in BackendsOf(p)} : p \in Providers} :
        /\ fn' = [op |-> "invoke_raw", outcome |-> o, ret |-> invoke_raw(o)]
        /\ UNCHANGED runVars

NextInvoke == CallInvoke \/ CallInvokeRaw

SpecInvoke == InitInvoke /\ [][NextInvoke]_vars

\* the last call the wrapper made to its backend failed: it raised, or the server
\* answered with a status other than 200
FinalAttemptFailed ==
    \/ fn.backend.first.k = "err"
         /\ ~(fn.provider = "openai" /\ fn.backend.first.kind = "temperature")
    \/ fn.provider = "openai" /\ fn.backend.first.k = "err"
         /\ fn.backend.first.kind = "temperature" /\ fn.backend.second.k = "err"
    \/ fn.provider = "litgpt" /\ fn.backend.first.k = "ok" /\ fn.backend.status # HttpOk

\* C8: for every provider wrapper, invoke never raises to the caller; on any
\* transport, authentication or backend error during the call, a non-200 HTTP status
\* included, it returns a response whose content is the fixed sentinel payload.
C8_InvokeNeverRaises ==
    fn.op = "invoke" =>
        /\ fn.ret.k # "raise"
        /\ fn.ret.k \in {"content", "none"}
        /\ FinalAttemptFailed => fn.ret = Content(Sentinel)

\* C8 witness: the OpenAI wrapper repeated the call without temperature and the
\* repeated call failed on authentication.
C8_Witness ==
    /\ fn.op = "invoke"
    /\ fn.provider = "openai"
    /\ fn.backend.first = Err("temperature")
    /\ fn.backend.second = Err("auth")
    /\ fn.ret = Content(Sentinel)

----------------------------------------------------------------------------
(* Properties of the rounds (Spec). *)

InOrAfterRounds == pc \in {"rounds", "judge", "report", "retry", "done"}
NumTurns == Len(conversation_log) - 1
\* the call of the j-th turn: the calls before it are the viewpoint call and two calls
\* for every agent
TurnCallAt(j) == calls[1 + 2 * Len(agents) + j]
\* the creation index of the agent of the j-th turn, and the round of the j-th turn
TurnAgent(j) == ((j - 1) % Len(agents)) + 1
TurnRound(j) == ((j - 1) \div Len(agents)) + 1

----------------------------------------------------------------------------
(* Properties of the repair of truncated JSON (SpecInvoke). *)

\* C12: the repair of a fragment truncated inside nested structures gives text that
\* parses to the intended value: from {"a": 1, "b": [2, 3 the wrapper's repair followed
\* by the extractor gives a value equal to parsing {"a": 1, "b": [2, 3]}.
C12_RepairParsesToIntendedValue ==
    (fn.op = "invoke" /\ fn.provider = "litgpt" /\ fn.backend.first.k = "ok"
     /\ fn.backend.status = HttpOk /\ fn.backend.body = BodyDict(Ok(NestedFragment)))
        => /\ json_loads(_extract_json_object(fn.ret.text)).ok
           /\ json_loads(_extract_json_object(fn.ret.text)).val = NestedValue

----------------------------------------------------------------------------
(* Properties of the result of a run (Spec). *)

\* the run of the stubbed scenario: max_agents 2, one round, a gateway that answers
\* the viewpoint request with a valid list of two viewpoints, every turn with the
\* fixed turn text, the judge and the report request with their fixed texts
StubbedRun ==
    /\ pc = "done"
    /\ max_agents = 2
    /\ num_rounds = 1
    /\ calls[1].reply = Dumps(GoodList(2))
    /\ \A i \in 1..Len(calls) :
        /\ calls[i].kind = "turn" => calls[i].reply = <<"I", " ", "rebut">>
        /\ calls[i].kind = "judge" => calls[i].reply = <<"judge", " ", "summary">>
        /\ calls[i].kind = "report" => calls[i].reply = <<"the", " ", "report">>

\* C13: with max_agents = 2, one round and a gateway stub that returns a valid list of
\* two viewpoints, then fixed turn text, then fixed judge and report text, the run
\* returns a DebateResult whose conversation_log has exactly 3 entries (the setup entry
\* and 2 turns) and whose final_report equals the stubbed report text.
C13_StubbedRunResult ==
    StubbedRun =>
        /\ result.status = "returned"
        /\ Len(result.viewpoints) = 2
        /\ Len(result.conversation_log) = 3
        /\ result.conversation_log[1].round = 0
        /\ result.conversation_log[2].content = <<"I", " ", "rebut">>
        /\ result.conversation_log[3].content = <<"I", " ", "rebut">>
        /\ result.judge_summary = <<"judge", " ", "summary">>
        /\ result.final_report = <<"the", " ", "report">>

\* C13 witness: the stubbed run has finished, with one report call.
C13_Witness ==
    /\ StubbedRun
    /\ cfg.down = {}
    /\ calls[Len(calls)].kind = "report"
    /\ Len(agents) = 2

\* the entry of the j-th turn as the inputs of the run and the reply of its call fix it
ExpectedTurnEntry(j) ==
    [speaker |-> viewpoints[TurnAgent(j)].name,
     content |-> IF TurnCallAt(j).reply = <<>> THEN Placeholder ELSE TurnCallAt(j).reply,
     round |-> TurnRound(j)]

\* C14: two runs given identical configuration, topic, max_agents, rounds and identical
\* gateway responses call by call produce identical viewpoints, agents' positions and
\* conversation log: each of them is a function of the arguments of the run and of the
\* replies of its calls, and of nothing else.
C14_OutputsFixedByInputsAndResponses ==
    /\ Len(calls) >= 1 => viewpoints = generate_viewpoints(calls[1].reply, topic, max_agents)
    /\ \A i \in 1..Len(agents) :
        /\ agents[i].name = viewpoints[i].name
        /\ agents[i].position = viewpoints[i].position
    /\ InOrAfterRounds =>
        /\ Len(agents) = Len(viewpoints)
        /\ conversation_log[1] = setup_entry(viewpoints)
        /\ \A j \in 1..NumTurns : conversation_log[j + 1] = ExpectedTurnEntry(j)
    /\ pc = "done" =>
        /\ result.viewpoints = viewpoints
        /\ result.conversation_log = conversation_log
        /\ \A i \in 1..Len(agents) : result.agents[i].position = viewpoints[i].position

\* C14 witness: a finished run of three agents and one round whose turns were a reply,
\* an empty reply and a reply.
C14_Witness ==
    /\ pc = "done"
    /\ Len(viewpoints) = 3
    /\ NumTurns = 3
    /\ TurnCallAt(1).reply # <<>>
    /\ TurnCallAt(2).reply = <<>>
    /\ TurnCallAt(3).reply # <<>>

----------------------------------------------------------------------------
(* SpecBrief: generate_agent_brief on its own, for every accepted          *)
(* viewpoint and every answer to the brief request and the dossier request. *)

\* viewpoints generate_viewpoints can return: parsed ones, with and without a summary,
\* and the two canned ones
BriefViewpoints ==
    { Viewpoint(<<"Optimist">>, <<"is", " ", "good">>, <<"because">>),
      Viewpoint(<<"Skeptic", "?">>, <<"is", " ", "bad">>, <<>>) }
    \cup { FallbackViewpoints(t)[i] : t \in Topics, i \in 1..2 }

\* an answer that gives its own values for the keys the brief starts with
ImpostorObj ==
    JObj(<< JPair(<<"agent_id">>, JNum("0")),
            JPair(<<"name">>, JStr(<<"Impostor">>)),
            JPair(<<"topic">>, JStr(<<"another", " ", "topic">>)),
            JPair(<<"position">>, JStr(<<"the", " ", "opposite">>)),
            JPair(<<"raw_brief">>, JStr(<<"my", " ", "own", " ", "dossier">>)) >>)

BriefObj(v) == JObj(<< JPair(<<"role_summary">>, JStr(<<"role">>)),
                       JPair(<<"summary_for_prompt">>, v) >>)

\* the texts a model may answer the brief request with
BriefTexts ==
    { <<>>, <<"I", " ", "cannot", " ", "answer">>, Sentinel,
      Truncated(Dumps(BriefObj(JStr(<<"notes">>)))),
      Dumps(JList(<<JStr(<<"notes">>)>>)),
      Dumps(JObj(<<JPair(<<"role_summary">>, JStr(<<"role">>))>>)),
      Dumps(BriefObj(JStr(<<>>))),
      Dumps(BriefObj(JStr(<<" ", "\n">>))),
      Dumps(BriefObj(JNum("3"))),
      Dumps(BriefObj(JNull)),
      Dumps(BriefObj(JList(<<JStr(<<"notes">>)>>))),
      Dumps(BriefObj(JStr(<<"notes">>))),
      Fenced(Dumps(BriefObj(JStr(<<"notes">>)))),
      WithProse(Dumps(BriefObj(JStr(<<" ", "notes">>)))),
      Dumps(JObj(<< JPair(<<"supporting_arguments">>, JList(<<JStr(<<"claim">>)>>)),
                    JPair(<<"debate_strategy">>, JObj(<<JPair(<<"tone">>, JStr(<<"firm">>))>>)) >>)),
      Dumps(JObj(<< JPair(<<"supporting_arguments">>, JNull),
                    JPair(<<"questions_to_ask">>, JStr(<<"why", "?">>)) >>)),
      Dumps(JObj(<< JPair(<<"debate_strategy">>, JList(<<JStr(<<"firm">>)>>)),
                    JPair(<<"self_weaknesses">>, JNum("0")) >>)),
      Dumps(ImpostorObj) }

BriefOutcomes == {Raises, ContentNone} \cup {Content(t) : t \in BriefTexts}
DossierOutcomes == {Raises, Content(<<"dossier">>), Content(<<" ", "dossier", "\n">>)}

InitBrief == RunIdle /\ fn = Idle

CallGenerateAgentBrief ==
    /\ fn = Idle
    /\ \E t \in Topics, vp \in BriefViewpoints, i \in 1..MaxAgents :
        \E o \in BriefOutcomes, d \in DossierOutcomes :
            /\ fn' = [op |-> "generate_agent_brief", topic |-> t, viewpoint |-> vp,
                      agent_index |-> i, raw |-> invoke_raw(o), raw_brief |-> invoke_raw(d),
                      requests |-> << Call("model", "brief", <<>>, invoke_raw(o)),
                                      Call("model", "dossier", <<>>, invoke_raw(d)) >>,
                      ret |-> generate_agent_brief(invoke_raw(o), invoke_raw(d), t, vp, i)]
            /\ UNCHANGED runVars

NextBrief == CallGenerateAgentBrief

SpecBrief == InitBrief /\ [][NextBrief]_vars

\* the value the answer gives for summary_for_prompt, JNull when it gives none
AnsweredSummary(raw) ==
    IF raw # <<>> /\ json_loads(_extract_json_object(raw)).ok
       /\ json_loads(_extract_json_object(raw)).val.t = "obj"
    THEN DictGet(json_loads(_extract_json_object(raw)).val, <<"summary_for_prompt">>, JNull)
    ELSE JNull
UsableSummary(v) == v.t = "str" /\ Strip(v.s) # <<>>

\* C15: for every accepted viewpoint and every answer to the brief request (empty,
\* unparseable, an object without summary_for_prompt, or one whose summary_for_prompt
\* is empty, whitespace or not a string), the brief's summary_for_prompt is a non-empty
\* string: the answered one when it is usable, else the position, a blank line and the
\* summary of the viewpoint.
C15_SummaryForPromptNeverEmpty ==
    fn.op = "generate_agent_brief" =>
        /\ fn.ret.summary_for_prompt.t = "str"
        /\ Strip(fn.ret.summary_for_prompt.s) # <<>>
        /\ fn.ret.summary_for_prompt.s =
             (IF UsableSummary(AnsweredSummary(fn.raw)) THEN AnsweredSummary(fn.raw).s
              ELSE fn.viewpoint.position \o <<"\n", "\n">> \o fn.viewpoint.summary)

\* C15 witness: the answer was an object whose summary_for_prompt is whitespace, and
\* the brief fell back to the position and summary of a viewpoint without a summary.
C15_Witness ==
    /\ fn.op = "generate_agent_brief"
    /\ AnsweredSummary(fn.raw) = JStr(<<" ", "\n">>)
    /\ fn.viewpoint.summary = <<>>
    /\ fn.ret.summary_for_prompt.s = fn.viewpoint.position \o <<"\n", "\n">>

----------------------------------------------------------------------------
(* Properties of the transcript and of the order of the calls (Spec). *)

\* C16: the conversation log is append-only: every step of a run leaves the log as it
\* is or adds one entry at its end; no entry is changed, removed or reordered.
C16_LogAppendOnly ==
    [][ \/ conversation_log' = conversation_log
        \/ /\ Len(conversation_log') = Len(conversation_log) + 1
           /\ SubSeq(conversation_log', 1, Len(conversation_log)) = conversation_log ]_vars

\* C16 witness: a log of the setup entry and three turns, the run past its rounds.
C16_Witness ==
    /\ pc \in {"judge", "report", "retry", "done"}
    /\ Len(conversation_log) = 4
    /\ conversation_log[1].round = 0
    /\ conversation_log[4].round = 1

----------------------------------------------------------------------------
(* SpecTwoRuns: two runs of run_interactive_debate executing concurrently  *)
(* with the same output directory and the same question type id, as two    *)
(* HTTP requests do (app_interactive.py lines 71-78).  Only the steps that *)
(* write files are kept; files is the history of the writes of both runs   *)
(* and fn holds the wall clock and the position of each run.               *)

\* the names of the viewpoints a run may have got: the canned pair, or parsed ones
RunNameLists ==
    { <<FallbackViewpoints(<<"x">>)[1].name, FallbackViewpoints(<<"x">>)[2].name>>,
      <<<<"Optimist">>, <<"Skeptic">>>>,
      <<<<"Hawk">>, <<"Dove">>, <<"Owl">>>> }

\* line 677-678: the result file is named after the second in which it is written
result_path(second) == <<"interactive_debate_", "second ", IntAtom(second), ".json">>

RunAt(names) == [pc |-> "briefs", names |-> names, idx |-> 1]

InitTwoRuns ==
    /\ pc = "idle" /\ cfg = <<>> /\ topic = <<>> /\ max_agents = 0 /\ num_rounds = 0
    /\ agent_models = <<>> /\ viewpoints = <<>> /\ agent_briefs = <<>> /\ agents = <<>>
    /\ conversation_log = <<>> /\ idx = 0 /\ r = 0 /\ turn = 0
    /\ judge_summary = <<>> /\ final_report = <<>> /\ result = NoResult
    /\ error = "none" /\ calls = <<>> /\ files = <<>>
    /\ \E n1 \in RunNameLists, n2 \in RunNameLists :
        fn = [op |-> "two_runs", clock |-> 0, runs |-> <<RunAt(n1), RunAt(n2)>>]

twoRunsVars == <<pc, cfg, topic, max_agents, num_rounds, agent_models, viewpoints,
                 agent_briefs, agents, conversation_log, idx, r, turn, judge_summary,
                 final_report, result, error, calls>>

\* lines 321-330 in run p: the brief of its next agent is written, open(brief_path, "w")
WriteBrief(p) ==
    /\ fn.runs[p].pc = "briefs"
    /\ files' = Append(files, [path |-> brief_path(fn.runs[p].idx,
                                                   fn.runs[p].names[fn.runs[p].idx]),
                               kind |-> "brief", run |-> p])
    /\ fn' = [fn EXCEPT !.runs[p].idx = @ + 1,
                        !.runs[p].pc = IF fn.runs[p].idx = Len(fn.runs[p].names)
                                       THEN "save" ELSE "briefs"]
    /\ UNCHANGED twoRunsVars

\* lines 676-681 in run p: the result is written, open(outfile, "w")
WriteResult(p) ==
    /\ fn.runs[p].pc = "save"
    /\ files' = Append(files, [path |-> result_path(fn.clock), kind |-> "result", run |-> p])
    /\ fn' = [fn EXCEPT !.runs[p].pc = "done"]
    /\ UNCHANGED twoRunsVars

\* a second of wall-clock time passes
Tick ==
    /\ fn.clock < MaxClock
    /\ fn' = [fn EXCEPT !.clock = @ + 1]
    /\ UNCHANGED <<files, twoRunsVars>>

NextTwoRuns ==
    \/ \E p \in 1..2 : WriteBrief(p)
    \/ \E p \in 1..2 : WriteResult(p)
    \/ Tick

SpecTwoRuns == InitTwoRuns /\ [][NextTwoRuns]_vars

\* C17: two runs executing concurrently with the same output directory and question
\* type id share no mutable state: every result file and every brief file is written
\* once, and no file written by one run is written again by the other.
C17_ArtifactsNeverOverwritten ==
    \A i \in 1..Len(files) : \A j \in 1..Len(files) :
        (i # j) => files[i].path # files[j].path

----------------------------------------------------------------------------
(* Properties of the returned and persisted result (Spec). *)

\* the agents of a result: one per viewpoint, in creation order, each with exactly the
\* four public fields
PublicAgents(res) ==
    /\ Len(res.agents) = Len(viewpoints)
    /\ \A i \in 1..Len(res.agents) :
        /\ DOMAIN res.agents[i] = {"name", "position", "summary", "messages"}
        /\ res.agents[i].name = viewpoints[i].name
        /\ res.agents[i].position = viewpoints[i].position
        /\ res.agents[i].summary = viewpoints[i].summary
        /\ res.agents[i].messages = agents[i].messages

\* C18: in the returned and in the persisted DebateResult every entry of agents carries
\* exactly name, position, summary and messages (no model handle, system prompt or
\* brief of the internal record), and there is one entry per viewpoint in creation order.
C18_ResultAgentsArePublic ==
    pc = "done" =>
        /\ PublicAgents(result)
        /\ files[Len(files)].kind = "result"
        /\ PublicAgents(files[Len(files)].content)
        /\ \A i \in 1..Len(agents) : "model" \in DOMAIN agents[i]

\* C18 witness: a returned result of three agents that have each taken a turn.
C18_Witness ==
    /\ pc = "done"
    /\ Len(result.agents) = 3
    /\ \A i \in 1..3 : Len(result.agents[i].messages) = 1
    /\ files[Len(files)].content = result

----------------------------------------------------------------------------
(* Properties of the order of turns and calls (Spec). *)

\* C19: agents speak in fixed creation order in every round: entry 0 of the log is the
\* setup entry, and for every i >= 1 entry i has the speaker name of the agent at
\* creation index (i-1) mod K and the round number ((i-1) div K) + 1, so round numbers
\* never decrease along the log.
C19_FixedSpeakingOrder ==
    InOrAfterRounds =>
        /\ conversation_log[1].speaker = <<"Research / Setup">>
        /\ conversation_log[1].round = 0
        /\ \A j \in 1..NumTurns :
            /\ conversation_log[j + 1].speaker = agents[TurnAgent(j)].name
            /\ conversation_log[j + 1].round = TurnRound(j)
        /\ \A i \in 1..(Len(conversation_log) - 1) :
            conversation_log[i].round <= conversation_log[i + 1].round

\* C19 witness: a finished run of two rounds and three agents; the fifth entry is the
\* first agent's turn of round 2.
C19_Witness ==
    /\ pc = "done"
    /\ num_rounds = 2
    /\ Len(agents) = 3
    /\ Len(conversation_log) = 7
    /\ conversation_log[5].speaker = agents[1].name
    /\ conversation_log[5].round = 2
    /\ conversation_log[4].round = 1

\* the phase a call belongs to
PhaseOf(kind) ==
    IF kind = "viewpoints" THEN 1
    ELSE IF kind \in {"brief", "dossier"} THEN 2
    ELSE IF kind = "turn" THEN 3
    ELSE IF kind = "judge" THEN 4
    ELSE 5
CallsOfKind(kind) == Cardinality({i \in 1..Len(calls) : calls[i].kind = kind})

\* C20: the phases of a run are linear and forward-only: the gateway calls are one
\* viewpoint call, then for each agent in creation order its two brief calls, then the
\* N*K turn calls, then the judge call, then the report call and at most one repeated
\* report call; no call of an earlier phase follows a call of a later phase, and no
\* round is run again.
C20_PhasesLinear ==
    /\ \A i \in 1..(Len(calls) - 1) :
        /\ PhaseOf(calls[i].kind) <= PhaseOf(calls[i + 1].kind)
        /\ calls[i].kind = "report_retry" => FALSE
        /\ calls[i + 1].kind = "report_retry" => calls[i].kind = "report"
    /\ Len(calls) >= 1 => calls[1].kind = "viewpoints"
    /\ CallsOfKind("viewpoints") <= 1
    /\ CallsOfKind("brief") = Len(agent_briefs)
    /\ CallsOfKind("dossier") = Len(agent_briefs)
    /\ \A a \in 1..Len(agent_briefs) :
        /\ calls[2 * a].kind = "brief" /\ calls[2 * a].to = agent_model_of(a)
        /\ calls[2 * a + 1].kind = "dossier" /\ calls[2 * a + 1].to = agent_model_of(a)
    /\ CallsOfKind("turn") <= num_rounds * Len(viewpoints)
    /\ AfterRounds => CallsOfKind("turn") = num_rounds * Len(viewpoints)
    /\ CallsOfKind("judge") <= 1
    /\ CallsOfKind("report") <= 1
    /\ pc \in {"report", "retry", "done"} => CallsOfKind("judge") = 1
    /\ pc = "done" => CallsOfKind("report") = 1
    /\ pc \in {"start", "viewpoints"} => calls = <<>>

\* C20 witness: a finished run of two rounds and three agents whose report was asked
\* twice: 1 + 6 + 6 + 1 + 2 calls.
C20_Witness ==
    /\ pc = "done"
    /\ num_rounds = 2
    /\ Len(agents) = 3
    /\ Len(calls) = 16
    /\ calls[16].kind = "report_retry"
    /\ calls[8].kind = "turn"

----------------------------------------------------------------------------
(* Properties of the rounds and of the prompts of a run (Spec). *)

\* the number of turns the agent at creation index i has taken so far
TurnsTaken(i) == Cardinality({j \in 1..NumTurns : TurnAgent(j) = i})
\* the log entry appended for the agent at creation index i in round q
EntryOf(i, q) == conversation_log[1 + (q - 1) * Len(agents) + i]

\* C21: a round is one full pass in which every agent takes exactly one turn: an
\* agent's own messages list has one entry per round it has spoken in, with round
\* numbers 1, 2, ... in increasing order (exactly N entries after N rounds), and its
\* entry of round q has the content of the log entry appended for that agent in round
\* q, also when two agents have the same name.
C21_RoundIsOnePassOfEveryAgent ==
    InOrAfterRounds =>
        \A i \in 1..Len(agents) :
            /\ Len(agents[i].messages) = TurnsTaken(i)
            /\ AfterRounds => Len(agents[i].messages) = num_rounds
            /\ pc = "done" => result.agents[i].messages = agents[i].messages
            /\ \A q \in 1..Len(agents[i].messages) :
                /\ agents[i].messages[q].round = q
                /\ agents[i].messages[q].content = EntryOf(i, q).content
                /\ EntryOf(i, q).round = q
                /\ EntryOf(i, q).speaker = agents[i].name

\* C21 witness: a finished run of two rounds and two agents of the same name whose
\* turns differ: each agent holds its own two turns.
C21_Witness ==
    /\ pc = "done"
    /\ num_rounds = 2
    /\ Len(agents) = 2
    /\ agents[1].name = agents[2].name
    /\ Len(agents[1].messages) = 2
    /\ Len(agents[2].messages) = 2
    /\ agents[1].messages[1].content # agents[2].messages[1].content
    /\ agents[1].messages[2].content # agents[2].messages[2].content

\* a is a suffix of b
IsSuffix(a, b) == Len(a) <= Len(b) /\ SubSeq(b, Len(b) - Len(a) + 1, Len(b)) = a
\* the log as the j-th turn found it, its whole serialization, and the serialization
\* of its most recent entry
LogBeforeTurn(j) == SubSeq(conversation_log, 1, j)
SerializedBeforeTurn(j) == history_text(LogBeforeTurn(j))
RecentEntryText(j) == history_text(<<conversation_log[j]>>)
\* the calls after the last turn: the judge call, the report call, the repeated one
JudgeCallIndex == 2 + 2 * Len(agents) + num_rounds * Len(agents)
ReportCallIndex == JudgeCallIndex + 1
RetryCallIndex == JudgeCallIndex + 2

\* C22: report generation is a three-tier cascade: the final report is the first
\* non-empty text among the reply of the full-report call, the reply of the repeated
\* call (whose transcript is the last 4000 characters of the full one) and the
\* deterministic template; the repeated call is made only after an empty first reply,
\* the template is used only after an empty repeated reply, and a run makes at most
\* two report calls.
C22_ReportCascade ==
    /\ CallsOfKind("report") <= 1
    /\ CallsOfKind("report_retry") <= 1
    /\ CallsOfKind("report") + CallsOfKind("report_retry") <= 2
    /\ pc = "retry" =>
          /\ Len(calls) = ReportCallIndex
          /\ calls[ReportCallIndex].kind = "report"
          /\ calls[ReportCallIndex].reply = <<>>
    /\ pc = "done" =>
          /\ calls[ReportCallIndex].kind = "report"
          /\ calls[ReportCallIndex].history = full_history(conversation_log)
          /\ calls[ReportCallIndex].reply # <<>> =>
                /\ Len(calls) = ReportCallIndex
                /\ final_report = calls[ReportCallIndex].reply
          /\ calls[ReportCallIndex].reply = <<>> =>
                /\ Len(calls) = RetryCallIndex
                /\ calls[RetryCallIndex].kind = "report_retry"
                /\ Len(calls[RetryCallIndex].history) <= ShortHistoryChars
                /\ IsSuffix(calls[RetryCallIndex].history, calls[ReportCallIndex].history)
                /\ Len(calls[RetryCallIndex].history)
                     = Min(ShortHistoryChars, Len(calls[ReportCallIndex].history))
                /\ calls[RetryCallIndex].reply # <<>> =>
                      final_report = calls[RetryCallIndex].reply
                /\ calls[RetryCallIndex].reply = <<>> =>
                      final_report = template_report(topic, viewpoints)
          /\ result.final_report = final_report

\* C22 witness: both report calls answered nothing, the repeated call was given the
\* last 4000 characters of a longer transcript, and the report is the template.
C22_Witness ==
    /\ pc = "done"
    /\ Len(calls) = RetryCallIndex
    /\ calls[ReportCallIndex].reply = <<>>
    /\ calls[RetryCallIndex].reply = <<>>
    /\ Len(calls[ReportCallIndex].history) > ShortHistoryChars
    /\ Len(calls[RetryCallIndex].history) = ShortHistoryChars
    /\ final_report = template_report(topic, viewpoints)

\* C23 as stated: the history in a turn's prompt is the whole serialization of the log
\* so far when that has at most 3000 characters and else its last 3000 characters; it
\* is never longer than 3000 characters, it is a suffix of the whole serialization,
\* and it ends with the most recent entry.
C23_HistoryEndsWithRecentEntry ==
    InOrAfterRounds =>
        \A j \in 1..NumTurns :
            /\ Len(TurnCallAt(j).history) <= limit_chars
            /\ IsSuffix(TurnCallAt(j).history, SerializedBeforeTurn(j))
            /\ Len(TurnCallAt(j).history) = Min(limit_chars, Len(SerializedBeforeTurn(j)))
            /\ IsSuffix(RecentEntryText(j), TurnCallAt(j).history)

\* C23 as amended: the history in a turn's prompt is the whole serialization of the log
\* so far when that has at most 3000 characters and else exactly its last 3000
\* characters: it is never longer than 3000 characters and always a suffix of the
\* whole serialization; it ends with the most recent entry when the serialization of
\* that entry has at most 3000 characters, and else it is the last 3000 characters of
\* that entry, whose beginning is dropped.
C23_HistoryIsBoundedTail ==
    InOrAfterRounds =>
        \A j \in 1..NumTurns :
            /\ Len(TurnCallAt(j).history) <= limit_chars
            /\ IsSuffix(TurnCallAt(j).history, SerializedBeforeTurn(j))
            /\ Len(TurnCallAt(j).history) = Min(limit_chars, Len(SerializedBeforeTurn(j)))
            /\ Len(RecentEntryText(j)) <= limit_chars
                  => IsSuffix(RecentEntryText(j), TurnCallAt(j).history)
            /\ Len(RecentEntryText(j)) > limit_chars
                  => /\ IsSuffix(TurnCallAt(j).history, RecentEntryText(j))
                     /\ TurnCallAt(j).history # RecentEntryText(j)

\* C23 witness: two turns of one run were given a cut history: one after a short
\* entry, which it holds whole, and one after an entry longer than 3000 characters.
C23_Witness ==
    /\ InOrAfterRounds
    /\ \E j \in 1..NumTurns :
        /\ Len(SerializedBeforeTurn(j)) > limit_chars
        /\ Len(RecentEntryText(j)) <= limit_chars
        /\ Len(TurnCallAt(j).history) = limit_chars
        /\ IsSuffix(RecentEntryText(j), TurnCallAt(j).history)
    /\ \E j \in 1..NumTurns :
        /\ Len(RecentEntryText(j)) > limit_chars
        /\ Len(TurnCallAt(j).history) = limit_chars

\* the position of the i-th log entry in the serialization of the whole log
EntryOffset(i) == Len(history_text(SubSeq(conversation_log, 1, i - 1)))
EntryText(i) == history_text(<<conversation_log[i]>>)

\* C24: the judge is called exactly once per run, after the last turn of the last
\* round and before any report call; its transcript holds every log entry whole and
\* in order, with nothing cut; its reply, empty or not, is the judge summary, no
\* second judge call is made and the run goes on to the report.
C24_JudgeOnceOverWholeTranscript ==
    /\ CallsOfKind("judge") <= 1
    /\ pc \in {"start", "viewpoints", "agents", "rounds", "judge"} =>
          /\ CallsOfKind("judge") = 0
          /\ CallsOfKind("report") = 0
    /\ pc \in {"report", "retry", "done"} =>
          /\ calls[JudgeCallIndex].kind = "judge"
          /\ \A i \in 1..(JudgeCallIndex - 1) : PhaseOf(calls[i].kind) <= 3
          /\ CallsOfKind("turn") = num_rounds * Len(agents)
          /\ \A i \in (JudgeCallIndex + 1)..Len(calls) : PhaseOf(calls[i].kind) = 5
          /\ Len(conversation_log) = 1 + num_rounds * Len(agents)
          /\ Len(calls[JudgeCallIndex].history) = EntryOffset(Len(conversation_log) + 1)
          /\ \A i \in 1..Len(conversation_log) :
                SubSeq(calls[JudgeCallIndex].history, EntryOffset(i) + 1,
                       EntryOffset(i) + Len(EntryText(i))) = EntryText(i)
          /\ judge_summary = calls[JudgeCallIndex].reply
          /\ pc = "report" => Len(calls) = JudgeCallIndex
          /\ pc = "done" => result.judge_summary = judge_summary

\* C24 witness: a finished run whose judge answered nothing over a transcript longer
\* than the limits of the other prompts; the run went on to a report.
C24_Witness ==
    /\ pc = "done"
    /\ num_rounds = 2
    /\ calls[JudgeCallIndex].reply = <<>>
    /\ Len(calls[JudgeCallIndex].history) > ShortHistoryChars
    /\ result.judge_summary = <<>>
    /\ calls[ReportCallIndex].kind = "report"
    /\ final_report # <<>>

\* the line of the setup entry for the viewpoint at creation index i
SetupLineOf(i) ==
    <<"Agent ", IntAtom(i), " (">> \o viewpoints[i].name \o <<"): ">> \o viewpoints[i].position

\* C25: the conversation log has exactly one entry with round number 0: it is the
\* first entry, it is in the log before any turn is asked for (the first turn's prompt
\* already carries it), and its content lists the name and the position of every
\* viewpoint in creation order; every other entry has a round number from 1 to N.
C25_SetupEntryIsRoundZero ==
    /\ pc \in {"start", "viewpoints", "agents"} =>
          /\ conversation_log = <<>>
          /\ CallsOfKind("turn") = 0
    /\ InOrAfterRounds =>
          /\ conversation_log[1].round = 0
          /\ conversation_log[1].content =
                <<"Initial viewpoints (Round 0 - research/setup):", "\n">>
                \o JoinLines([i \in 1..Len(viewpoints) |-> SetupLineOf(i)])
          /\ \A i \in 2..Len(conversation_log) :
                conversation_log[i].round \in 1..num_rounds
          /\ Cardinality({i \in 1..Len(conversation_log) : conversation_log[i].round = 0}) = 1
          /\ NumTurns >= 1 => IsSuffix(history_text(<<conversation_log[1]>>),
                                       SerializedBeforeTurn(1))
          /\ NumTurns >= 1 => TurnCallAt(1).history = history_text(<<conversation_log[1]>>)
          /\ pc = "done" => result.conversation_log[1] = conversation_log[1]

\* C25 witness: a finished run of three viewpoints and two rounds: one entry of round
\* 0 and six entries of rounds 1 and 2.
C25_Witness ==
    /\ pc = "done"
    /\ Len(viewpoints) = 3
    /\ num_rounds = 2
    /\ Len(conversation_log) = 7
    /\ conversation_log[1].round = 0
    /\ Contains(conversation_log[1].content, viewpoints[3].position)
    /\ conversation_log[7].round = 2

----------------------------------------------------------------------------
(* Properties of the viewpoint list (SpecVP). *)

\* the stripped string form of the value an item gives for a key ("" when it gives none)
FieldText(item, key) == Strip(PyStr(DictGet(item, <<key>>, JStr(<<>>))))
\* the items of a parsed list that are objects with a non-empty name and position
ItemKept(item) ==
    /\ item.t = "obj"
    /\ FieldText(item, "name") # <<>>
    /\ FieldText(item, "position") # <<>>
KeptItems(items) == SelectSeq(items, ItemKept)
\* the parsed value of the viewpoint answer
ParsedAnswer == json_loads(fn.raw)

\* C26: generate_viewpoints treats a parseable answer of the wrong shape exactly like
\* a parse failure: a JSON object (the wrappers' error sentinel among them), any other
\* value that is not a list, and a list with fewer than 2 valid entries each give the
\* two canned viewpoints.
C26_WrongShapeGivesCannedPair ==
    (fn.op = "generate_viewpoints" /\ ParsedAnswer.ok
     /\ (ParsedAnswer.val.t # "list" \/ Len(KeptItems(ParsedAnswer.val.kids)) < 2))
        => /\ fn.ret = FallbackViewpoints(fn.topic)
           /\ Len(fn.ret) = 2
           /\ fn.ret[1].name = <<"Pro", " ", "Position">>
           /\ fn.ret[2].name = <<"Con", " ", "Position">>

\* C26 witness: the answer was the wrappers' error sentinel, which parses as an
\* object, and the canned pair was returned.
C26_Witness ==
    /\ fn.op = "generate_viewpoints"
    /\ fn.raw = Sentinel
    /\ ParsedAnswer.ok
    /\ ParsedAnswer.val.t = "obj"
    /\ fn.ret = FallbackViewpoints(fn.topic)

\* the text inside the wrapping of an answer: the fences and the language tag removed,
\* and what precedes the first "[" dropped
WithoutFences(x) == SelectSeq(x, LAMBDA a : a \notin {Fence, "json"})
Unwrapped(x) ==
    IF FindAtom(WithoutFences(x), "[", 1) = 0 THEN WithoutFences(x)
    ELSE Strip(SubSeq(WithoutFences(x), FindAtom(WithoutFences(x), "[", 1),
                      Len(WithoutFences(x))))
\* the answer is a list of at least 2 valid viewpoints inside code fences or after prose
WrappedValidList ==
    /\ fn.raw # Unwrapped(fn.raw)
    /\ json_loads(Unwrapped(fn.raw)).ok
    /\ json_loads(Unwrapped(fn.raw)).val.t = "list"
    /\ Len(KeptItems(json_loads(Unwrapped(fn.raw)).val.kids)) >= 2

\* C27: an answer that is a valid list of at least 2 viewpoints wrapped in Markdown
\* code fences (with or without a language tag) or preceded by prose gives those
\* parsed viewpoints, not the canned pair.
C27_WrappedListIsParsed ==
    (fn.op = "generate_viewpoints" /\ WrappedValidList)
        => /\ fn.ret # FallbackViewpoints(fn.topic)
           /\ Len(fn.ret) = Min(fn.max_agents,
                                Len(KeptItems(json_loads(Unwrapped(fn.raw)).val.kids)))
           /\ fn.ret[1].name
                = FieldText(KeptItems(json_loads(Unwrapped(fn.raw)).val.kids)[1], "name")

\* C28: when the answer parses as a list, the items that are not objects or whose
\* stripped name or position is empty are dropped, the others keep their order, the
\* list is accepted only if at least 2 remain, and exactly the first
\* min(max_agents, remaining) are returned; an empty summary drops nothing.
C28_ListFilteredInOrderAndCut ==
    (fn.op = "generate_viewpoints" /\ ParsedAnswer.ok /\ ParsedAnswer.val.t = "list")
        => IF Len(KeptItems(ParsedAnswer.val.kids)) >= 2
           THEN /\ Len(fn.ret) = Min(fn.max_agents, Len(KeptItems(ParsedAnswer.val.kids)))
                /\ \A i \in 1..Len(fn.ret) :
                      /\ fn.ret[i].name
                           = FieldText(KeptItems(ParsedAnswer.val.kids)[i], "name")
                      /\ fn.ret[i].position
                           = FieldText(KeptItems(ParsedAnswer.val.kids)[i], "position")
                      /\ fn.ret[i].summary
                           = FieldText(KeptItems(ParsedAnswer.val.kids)[i], "summary")
           ELSE fn.ret = FallbackViewpoints(fn.topic)

\* C28 witness: of a list of three items the one that is not an object was dropped,
\* and the two others were returned in order, the second with its empty summary.
C28_Witness ==
    /\ fn.op = "generate_viewpoints"
    /\ ParsedAnswer.ok
    /\ ParsedAnswer.val.t = "list"
    /\ Len(ParsedAnswer.val.kids) = 3
    /\ ParsedAnswer.val.kids[2].t = "str"
    /\ Len(fn.ret) = 2
    /\ fn.ret[1].name = <<"Optimist">>
    /\ fn.ret[2].name = <<"Skeptic">>
    /\ fn.ret[2].summary = <<>>

----------------------------------------------------------------------------
(* Properties of the repair step of the LitGPT wrapper (SpecInvoke). *)

\* the text the server generated, and the repair step of lines 354-383 runs on it: it
\* starts with "{", does not end with "}" and no closer is in surplus
GeneratedText == fn.backend.body.output.text
RepairRuns ==
    /\ fn.op = "invoke" /\ fn.provider = "litgpt" /\ fn.backend.first.k = "ok"
    /\ fn.backend.status = HttpOk /\ fn.backend.body.k = "dict"
    /\ fn.backend.body.output.k = "ok"
    /\ GeneratedText # <<>>
    /\ Head(GeneratedText) = "{"
    /\ GeneratedText[Len(GeneratedText)] # "}"
    /\ CountAtom(GeneratedText, "{") >= CountAtom(GeneratedText, "}")
    /\ CountAtom(GeneratedText, "[") >= CountAtom(GeneratedText, "]")

\* C29: when the repair step runs on a text with more opening than closing braces or
\* brackets, it appends exactly the missing closing braces and the missing closing
\* brackets and changes nothing else: the original text is a prefix of the repaired
\* one, and afterwards the counts of "{" and "}" are equal and those of "[" and "]".
C29_RepairOnlyAppendsClosers ==
    RepairRuns =>
        /\ SubSeq(fn.ret.text, 1, Len(GeneratedText)) = GeneratedText
        /\ Len(fn.ret.text) = Len(GeneratedText)
             + (CountAtom(GeneratedText, "{") - CountAtom(GeneratedText, "}"))
             + (CountAtom(GeneratedText, "[") - CountAtom(GeneratedText, "]"))
        /\ CountAtom(fn.ret.text, "{") = CountAtom(fn.ret.text, "}")
        /\ CountAtom(fn.ret.text, "[") = CountAtom(fn.ret.text, "]")

----------------------------------------------------------------------------
(* Properties of the containers of a brief (SpecBrief). *)

ListKeys == {"supporting_arguments", "anticipated_opponent_arguments", "self_weaknesses",
             "questions_to_ask"}
\* the empty container a key of the brief starts with
EmptyContainer(key) == IF key = "debate_strategy" THEN JObj(<<>>) ELSE JList(<<>>)
\* the answer to the brief request gave an object, and the object has the key
AnsweredObject == json_loads(_extract_json_object(fn.raw))
AnswerSupplies(key) ==
    /\ fn.raw # <<>>
    /\ AnsweredObject.ok
    /\ AnsweredObject.val.t = "obj"
    /\ HasKey(AnsweredObject.val, <<key>>)

\* C30 as stated: after generate_agent_brief each of the four argument lists is a list
\* and debate_strategy is a map, for every answer; each is the empty container when the
\* answer was empty, unparseable, not an object, or gave no usable value for the key.
C30_ContainersAlwaysTyped ==
    fn.op = "generate_agent_brief" =>
        /\ \A k \in ListKeys :
            /\ fn.ret[k].t = "list"
            /\ (~AnswerSupplies(k) \/ DictGet(AnsweredObject.val, <<k>>, JNull).t # "list")
                  => fn.ret[k] = JList(<<>>)
        /\ fn.ret.debate_strategy.t = "obj"
        /\ (~AnswerSupplies("debate_strategy")
             \/ DictGet(AnsweredObject.val, <<"debate_strategy">>, JNull).t # "obj")
              => fn.ret.debate_strategy = JObj(<<>>)

\* C30 as amended: after generate_agent_brief each of the four argument lists and
\* debate_strategy is present for every answer; it is the empty container (an empty
\* list, an empty map for debate_strategy) when the answer was empty, unparseable, not
\* an object, or an object without that key, and otherwise it is the value the answer
\* gave for the key, kept as it is whatever its type.
C30_ContainersDefaultWhenNotSupplied ==
    fn.op = "generate_agent_brief" =>
        \A k \in ListKeys \cup {"debate_strategy"} :
            /\ k \in DOMAIN fn.ret
            /\ ~AnswerSupplies(k) => fn.ret[k] = EmptyContainer(k)
            /\ AnswerSupplies(k) => fn.ret[k] = DictGet(AnsweredObject.val, <<k>>, JNull)

\* C30 witness: the answer gave null for supporting_arguments and a string for
\* questions_to_ask; the brief holds them as given and the keys the answer left out
\* are empty containers.
C30_Witness ==
    /\ fn.op = "generate_agent_brief"
    /\ AnswerSupplies("supporting_arguments")
    /\ fn.ret.supporting_arguments = JNull
    /\ fn.ret.questions_to_ask = JStr(<<"why", "?">>)
    /\ fn.ret.self_weaknesses = JList(<<>>)
    /\ fn.ret.debate_strategy = JObj(<<>>)

----------------------------------------------------------------------------
(* Properties of the two requests of generate_agent_brief (SpecBrief). *)

\* the answer to the brief request is an object generate_agent_brief merges
AnswerParses == fn.raw # <<>> /\ AnsweredObject.ok /\ AnsweredObject.val.t = "obj"

\* C31: generate_agent_brief makes exactly two model calls, the brief request and then
\* the dossier request, whether or not the answer to the first parses; when the text
\* invoke_raw returned for the dossier request is not empty, raw_brief of the brief is
\* that text, whatever keys (raw_brief included) the first answer had.
C31_TwoCallsAndDossierKept ==
    fn.op = "generate_agent_brief" =>
        /\ Len(fn.requests) = 2
        /\ fn.requests[1].kind = "brief" /\ fn.requests[1].reply = fn.raw
        /\ fn.requests[2].kind = "dossier" /\ fn.requests[2].reply = fn.raw_brief
        /\ fn.requests[2].reply # <<>> => fn.ret.raw_brief = JStr(fn.requests[2].reply)

\* C31 witness: the first answer parsed and had a raw_brief of its own, the dossier
\* request returned a text, and the brief holds the dossier text.
C31_Witness ==
    /\ fn.op = "generate_agent_brief"
    /\ AnswerParses
    /\ AnswerSupplies("raw_brief")
    /\ fn.raw_brief = <<"dossier">>
    /\ fn.ret.raw_brief = JStr(<<"dossier">>)

----------------------------------------------------------------------------
(* Properties of invoke_raw (SpecInvoke). *)

\* C32: invoke_raw always returns a text and never raises: a response whose content is
\* None or empty gives the empty text, a response without a content attribute gives its
\* string form (stripped), an exception of model.invoke gives the empty text; the result
\* has no leading or trailing whitespace.
C32_InvokeRawReturnsStrippedText ==
    fn.op = "invoke_raw" =>
        /\ DOMAIN fn.ret = 1..Len(fn.ret)
        /\ fn.outcome.k \in {"raise", "none"} => fn.ret = <<>>
        /\ fn.outcome.k = "content" /\ fn.outcome.text = <<>> => fn.ret = <<>>
        /\ fn.outcome.k = "noattr" => fn.ret = Strip(fn.outcome.text)
        /\ fn.ret # <<>> => fn.ret[1] \notin WS /\ fn.ret[Len(fn.ret)] \notin WS

\* C32 witness: the response had no content attribute and its string form had
\* whitespace around two words; invoke_raw returned the words without it.
C32_Witness ==
    /\ fn.op = "invoke_raw"
    /\ fn.outcome = NoContentAttr(<<" ", "two", " ", "words", "\n", "\n">>)
    /\ fn.ret = <<"two", " ", "words">>

----------------------------------------------------------------------------
(* Properties of the handles the calls of a run go to (SpecManyAgents). *)

\* slot ((i - 1) mod 3) + 1 of the pool of role A, role B and role C, or role A again
\* for a pairing without a role C
PoolSlot(i) ==
    LET s == ((i - 1) % 3) + 1
    IN Handle(IF s = 3 /\ "C" \notin cfg.roles THEN "A" ELSE <<"A", "B", "C">>[s], s)
\* the two calls of the brief of agent i
BriefCallsOf(i) == <<calls[2 * i], calls[2 * i + 1]>>

\* C33: the agent with creation index i (from 1) holds slot ((i - 1) mod 3) + 1 of the
\* pool (A, B, C or A again); its two brief calls and each of its turns in every round
\* went to that handle; the fourth agent is on the first handle again.
C33_AgentKeepsItsPoolHandle ==
    /\ \A i \in 1..Len(agents) :
        /\ agents[i].model = PoolSlot(i)
        /\ BriefCallsOf(i)[1].kind = "brief" /\ BriefCallsOf(i)[1].to = PoolSlot(i)
        /\ BriefCallsOf(i)[2].kind = "dossier" /\ BriefCallsOf(i)[2].to = PoolSlot(i)
    /\ InOrAfterRounds =>
        \A j \in 1..NumTurns :
            /\ TurnCallAt(j).kind = "turn"
            /\ TurnCallAt(j).to = PoolSlot(TurnAgent(j))

\* C33 witness: a finished run of four agents over two or more rounds; the third agent
\* is on the handle of role C and the fourth on the first handle, and the last turn of
\* the last round, the fourth agent's, went to the first handle.
C33_Witness ==
    /\ pc = "done"
    /\ Len(agents) = 4
    /\ num_rounds >= 2
    /\ agents[3].model = Handle("C", 3)
    /\ agents[4].model = Handle("A", 1)
    /\ TurnAgent(NumTurns) = 4 /\ TurnRound(NumTurns) = num_rounds
    /\ TurnCallAt(NumTurns).to = Handle("A", 1)

----------------------------------------------------------------------------
(* Properties of the calls that are not an agent's (Spec). *)

AgentCallKinds == {"brief", "dossier", "turn"}

\* C34: every call that is not a brief call or a turn (the viewpoint call, the judge
\* call, both report attempts) went to the handle of role A in the first slot of the
\* pool; no handle of the pool and no call is of the pairing's judge role.
C34_OtherCallsGoToFirstSlot ==
    /\ \A k \in 1..Len(calls) :
        /\ calls[k].kind \notin AgentCallKinds =>
              /\ calls[k].kind \in {"viewpoints", "judge", "report", "report_retry"}
              /\ calls[k].to = agent_models[1]
              /\ calls[k].to = Handle("A", 1)
        /\ calls[k].to.role # "judge"
    /\ \A s \in 1..Len(agent_models) : agent_models[s].role # "judge"

\* C34 witness: a finished run under a pairing with a judge role whose gateway could
\* not have been constructed; the judge call and both report attempts were made, to
\* the first slot.
C34_Witness ==
    /\ pc = "done"
    /\ "judge" \in cfg.roles /\ "judge" \in cfg.nocred
    /\ Len(calls) = RetryCallIndex
    /\ calls[JudgeCallIndex].kind = "judge" /\ calls[JudgeCallIndex].to = Handle("A", 1)
    /\ calls[ReportCallIndex].kind = "report" /\ calls[RetryCallIndex].kind = "report_retry"
    /\ calls[RetryCallIndex].to = agent_models[1]

----------------------------------------------------------------------------
(* Properties of the contents of the transcript (Spec). *)

\* C35: in every state of a run, every entry of the conversation log and every entry of
\* every agent's messages has a non-empty content.
C35_NoEmptyContent ==
    /\ \A i \in 1..Len(conversation_log) : conversation_log[i].content # <<>>
    /\ \A a \in 1..Len(agents) :
        \A m \in 1..Len(agents[a].messages) : agents[a].messages[m].content # <<>>

\* C35 witness: the first turn's call returned no text; the transcript has the setup
\* entry and the placeholder for that turn, and so have the first agent's messages.
C35_Witness ==
    /\ InOrAfterRounds
    /\ NumTurns >= 1
    /\ TurnCallAt(1).reply = <<>>
    /\ conversation_log[1].content # <<>>
    /\ conversation_log[2].content = Placeholder
    /\ agents[1].messages[1].content = Placeholder

----------------------------------------------------------------------------
(* Properties of the identity of a brief (SpecBrief). *)

IdentityKeys == {"agent_id", "name", "topic", "position"}
\* the value generate_agent_brief was given for an identity key
GivenIdentity(key) ==
    IF key = "agent_id" THEN JNum(IntAtom(fn.agent_index))
    ELSE IF key = "name" THEN JStr(fn.viewpoint.name)
    ELSE IF key = "topic" THEN JStr(fn.topic)
    ELSE JStr(fn.viewpoint.position)

\* C36 as stated: whatever the model returned, agent_id of the brief is the agent index
\* passed in, topic is the run's topic, name and position are the viewpoint's.
C36_BriefKeepsIdentity ==
    fn.op = "generate_agent_brief" =>
        \A k \in IdentityKeys : fn.ret[k] = GivenIdentity(k)

\* C36 as amended: agent_id, topic, name and position of the brief are the agent index,
\* the topic and the viewpoint's name and position passed in, unless the answer to the
\* brief request is a JSON object that has the key; then the brief holds the answer's
\* value for it.
C36_IdentityDefaultsUnlessSupplied ==
    fn.op = "generate_agent_brief" =>
        \A k \in IdentityKeys :
            /\ ~AnswerSupplies(k) => fn.ret[k] = GivenIdentity(k)
            /\ AnswerSupplies(k) => fn.ret[k] = DictGet(AnsweredObject.val, <<k>>, JNull)

\* C36 witness: the answer named another agent, topic and position, and the brief of
\* the viewpoint carries the answer's values.
C36_Witness ==
    /\ fn.op = "generate_agent_brief"
    /\ AnswerSupplies("name")
    /\ fn.ret.name = JStr(<<"Impostor">>)
    /\ fn.ret.name # JStr(fn.viewpoint.name)
    /\ fn.ret.agent_id = JNum("0")
    /\ fn.ret.topic # JStr(fn.topic)
    /\ fn.ret.position = JStr(<<"the", " ", "opposite">>)

----------------------------------------------------------------------------
(* Properties of the token budget of a wrapper (SpecInvoke). *)

\* C37: the number of new tokens a wrapper asks its backend to generate is never more
\* than the max_tokens it was configured with, for every configured value and every
\* provider, the local and the LitGPT wrapper included.
C37_AskedTokensWithinBudget ==
    fn.op = "invoke" => fn.asked <= fn.max_tokens

----------------------------------------------------------------------------
(* SpecBenchmark: run_benchmark for one pairing and one dataset.  The       *)
(* examples are numbered 1..n in the order they are submitted; the pool     *)
(* starts them in that order on num_workers threads, and each thread ends   *)
(* its debate when it ends.  Every write of a result file succeeds.         *)

MaxExamples == 3
MaxWorkers == 2

\* lines 313-326: nothing is submitted yet
InitBenchmark ==
    /\ RunIdle
    /\ \E n \in 2..MaxExamples, w \in 1..MaxWorkers :
        fn = [op |-> "run_benchmark", pc |-> "submit", examples |-> n, num_workers |-> w,
              submitted |-> 0, started |-> 0, running |-> {}, finished |-> <<>>,
              errors |-> {}, early |-> {}, files |-> <<>>, all_results |-> <<>>]

\* lines 317-326: executor.submit for the next example
SubmitExample ==
    /\ fn.op = "run_benchmark" /\ fn.pc = "submit"
    /\ fn.submitted < fn.examples
    /\ fn' = [fn EXCEPT !.submitted = @ + 1]
    /\ UNCHANGED runVars

\* a free thread of the pool takes the oldest submitted example that has not started
WorkerStart ==
    /\ fn.op = "run_benchmark"
    /\ fn.started < fn.submitted
    /\ Cardinality(fn.running) < fn.num_workers
    /\ fn' = [fn EXCEPT !.started = @ + 1, !.running = @ \cup {fn.started + 1}]
    /\ UNCHANGED runVars

\* lines 165-235: run_single_debate returns for example k, with the debate's state or,
\* after an exception, with the error record; the future of k is finished
WorkerFinish ==
    /\ fn.op = "run_benchmark"
    /\ \E k \in fn.running, failed \in BOOLEAN :
        fn' = [fn EXCEPT !.running = @ \ {k}, !.finished = Append(@, k),
                         !.errors = IF failed THEN @ \cup {k} ELSE @]
    /\ UNCHANGED runVars

\* line 329: as_completed(futures) is entered when everything is submitted; the futures
\* finished by then are the ones it hands out first
StartCollect ==
    /\ fn.op = "run_benchmark" /\ fn.pc = "submit"
    /\ fn.submitted = fn.examples
    /\ fn' = [fn EXCEPT !.pc = "collect",
                         !.early = {fn.finished[j] : j \in 1..Len(fn.finished)}]
    /\ UNCHANGED runVars

\* the result run_single_debate returned for example k
result_of(k) == [example_id |-> k, error |-> k \in fn.errors]
\* the examples whose result is collected
Collected == {fn.all_results[j].example_id : j \in 1..Len(fn.all_results)}
\* the futures as_completed can hand out next: any of the ones that were finished when
\* it was entered, in no particular order, and after them the others as they finish
NextCompleted ==
    IF fn.early \ Collected # {} THEN fn.early \ Collected
    ELSE LET rest == SelectSeq(fn.finished, LAMBDA k : k \notin Collected)
         IN IF rest = <<>> THEN {} ELSE {Head(rest)}

\* lines 329-341: one iteration of the loop over enumerate(as_completed(futures)); the
\* file gets the number i + 1 of the iteration
CollectResult ==
    /\ fn.op = "run_benchmark" /\ fn.pc = "collect"
    /\ \E k \in NextCompleted :
        fn' = [fn EXCEPT !.all_results = Append(@, result_of(k)),
                         !.files = Append(@, [number |-> Len(fn.all_results) + 1,
                                              result |-> result_of(k)])]
    /\ UNCHANGED runVars

\* lines 346-349: every future was handed out; all_results.json is written
FinishBenchmark ==
    /\ fn.op = "run_benchmark" /\ fn.pc = "collect"
    /\ Len(fn.all_results) = fn.examples
    /\ fn' = [fn EXCEPT !.pc = "done"]
    /\ UNCHANGED runVars

NextBenchmark ==
    \/ SubmitExample
    \/ WorkerStart
    \/ WorkerFinish
    \/ StartCollect
    \/ CollectResult
    \/ FinishBenchmark

SpecBenchmark == InitBenchmark /\ [][NextBenchmark]_vars

\* C38: the result file numbered n holds the result of example number n, the n-th
\* example submitted, for every order in which the threads finish; when the run is
\* over every submitted example has exactly one file.
C38_FileNumberIsExampleNumber ==
    fn.op = "run_benchmark" =>
        /\ \A j \in 1..Len(fn.files) : fn.files[j].result.example_id = fn.files[j].number
        /\ fn.pc = "done" =>
              \A k \in 1..fn.examples :
                  Cardinality({j \in 1..Len(fn.files) : fn.files[j].result.example_id = k}) = 1

----------------------------------------------------------------------------
(* SpecQuery: one call of query of the stock research service, consumed to  *)
(* its end.  iterative_search answers with None or with a call of one of    *)
(* the five functions it was given, so the branch for an unknown function   *)
(* name is never taken.  The model calls and the HTTP requests are taken to *)
(* return: query handles no exception, and one raised by them would end it  *)
(* on the spot.                                                             *)

MaxIterations == 3

QueryFunctions ==
    {"get_daily_price", "get_company_overview", "get_sector_performance",
     "get_news_sentiment", "get_earnings_calendar"}

\* what executing a retrieval function gives: data or a falsy result;
\* get_earnings_calendar wraps what it read in a dict, which is never falsy
RetrievalOutcomes(f) ==
    IF f = "get_earnings_calendar" THEN {"data"} ELSE {"data", "empty"}

\* lines 239-250
InitQuery ==
    /\ RunIdle
    /\ \E m \in 0..MaxIterations :
        fn = [op |-> "query", pc |-> "loop", max_iterations |-> m, iteration |-> 0,
              called_functions |-> {}, executed |-> <<>>, collected_data |-> {},
              stop |-> "", analyses |-> 0]

\* lines 253-264: iterative_search returns None
SearchNone ==
    /\ fn.op = "query" /\ fn.pc = "loop"
    /\ fn.iteration < fn.max_iterations
    /\ fn' = [fn EXCEPT !.iteration = @ + 1, !.pc = "analyze", !.stop = "satisfied"]
    /\ UNCHANGED runVars

\* mutant: a function asked for again is executed again
SearchRepeat_callsAgain ==
    /\ fn.op = "query" /\ fn.pc = "loop"
    /\ fn.iteration < fn.max_iterations
    /\ \E f \in fn.called_functions :
        fn' = [fn EXCEPT !.iteration = @ + 1, !.executed = Append(@, f)]
    /\ UNCHANGED runVars

\* lines 253-270: iterative_search asks for a function that was already called
SearchRepeat ==
    /\ fn.op = "query" /\ fn.pc = "loop"
    /\ fn.iteration < fn.max_iterations
    /\ \E f \in fn.called_functions :
        fn' = [fn EXCEPT !.iteration = @ + 1, !.pc = "analyze", !.stop = "repeat"]
    /\ UNCHANGED runVars

\* lines 253-296: iterative_search asks for a function not called yet and it is executed
Retrieve ==
    /\ fn.op = "query" /\ fn.pc = "loop"
    /\ fn.iteration < fn.max_iterations
    /\ \E f \in QueryFunctions \ fn.called_functions :
        \E res \in RetrievalOutcomes(f) :
            fn' = [fn EXCEPT !.iteration = @ + 1,
                             !.called_functions = @ \cup {f},
                             !.executed = Append(@, f),
                             !.collected_data = IF res = "data" THEN @ \cup {f} ELSE @,
                             !.pc = IF res = "empty" THEN "analyze" ELSE "loop",
                             !.stop = IF res = "empty" THEN "no data" ELSE ""]
    /\ UNCHANGED runVars

\* line 252: the loop condition fails
ExitLoop ==
    /\ fn.op = "query" /\ fn.pc = "loop"
    /\ fn.iteration >= fn.max_iterations
    /\ fn' = [fn EXCEPT !.pc = "analyze", !.stop = "max_iterations"]
    /\ UNCHANGED runVars

\* lines 298-300: analyze_data is called and the insight is yielded
Analyze ==
    /\ fn.op = "query" /\ fn.pc = "analyze"
    /\ fn' = [fn EXCEPT !.pc = "done", !.analyses = @ + 1]
    /\ UNCHANGED runVars

NextQuery ==
    \/ SearchNone
    \/ SearchRepeat
    \/ Retrieve
    \/ ExitLoop
    \/ Analyze

SpecQuery == InitQuery /\ [][NextQuery]_vars

\* the number of times function f was executed
TimesExecuted(f) == Cardinality({j \in 1..Len(fn.executed) : fn.executed[j] = f})

====
